---------------------------- MODULE Spec2Model ----------------------------
(***************************************************************************)
(* Stroke detection pipeline: symptom analysis, FAST triage, emergency     *)
(* alert, care instructions, event logging, the workflow coordinator that  *)
(* sequences them for one patient, and the batch prioritizer.              *)
(*                                                                         *)
(* Python dicts are TLA+ functions whose DOMAIN is the set of keys present,*)
(* Python lists are sequences, Python str values are TLA+ strings.         *)
(***************************************************************************)
EXTENDS Integers, Sequences, FiniteSets, TLC

VARIABLES
    pc,                 \* position of orchestrate_stroke_detection
    now,                \* the wall clock read by datetime.datetime.now()
    patient_id,         \* argument of orchestrate_stroke_detection
    input_data,         \* argument of orchestrate_stroke_detection
    workflow_results,   \* the record the coordinator builds and returns
    triage_results,     \* local of the coordinator, set by step 2
    start_time,         \* local of the coordinator (datetime read at entry)
    phase,              \* which batch-level call has been made
    patient_assessments,\* argument of process_batch_assessments
    batch_results,      \* what process_batch_assessments returned
    patients,           \* argument of prioritize_patient_queue
    queue_result,       \* what prioritize_patient_queue returned
    symptom_data,       \* argument of perform_fast_assessment
    fast_result,        \* what perform_fast_assessment returned
    band_score,         \* urgency_score entering the triage-level scan
    band_result,        \* what the triage-level scan assigned
    call,               \* the agent function called on its own
    args,               \* the arguments of that call
    ret                 \* what that call returned

vars == <<pc, now, patient_id, input_data, workflow_results, triage_results,
          start_time, phase, patient_assessments, batch_results, patients,
          queue_result, symptom_data, fast_result, band_score, band_result,
          call, args, ret>>

wfVars == <<pc, now, patient_id, input_data, workflow_results, triage_results,
            start_time>>
batchVars == <<phase, patient_assessments, batch_results, patients, queue_result>>
triageVars == <<symptom_data, fast_result, band_score, band_result>>
agentVars == <<call, args, ret>>

-----------------------------------------------------------------------------
(* Bounds of the model.                                                    *)

\* largest step of the clock between two consecutive reads
MaxTick == 1
\* the clock is not advanced beyond this value
MaxClock == 3
\* longest list handed to process_batch_assessments
MaxPatients == 2
\* longest list handed to prioritize_patient_queue
MaxQueue == 3
\* most matches of one FAST category in a symptom evidence
MaxFastMatches == 2
\* most matches of the "other" category in a symptom evidence
MaxOtherMatches == 6

\* the largest fast_score handed to calculate_stroke_risk_score on its own
MaxRiskFastScore == 10

-----------------------------------------------------------------------------
(* Python values and dict access.                                          *)

\* the value None
None == [t |-> "None"]
PyStr(s) == [t |-> "str", v |-> s]
PyInt(n) == [t |-> "int", v |-> n]
PyBool(b) == [t |-> "bool", v |-> b]
EmptyDict == [k \in {} |-> None]

\* d.get(k, default)
Get(d, k, default) == IF k \in DOMAIN d THEN d[k] ELSE default

\* truth value of a wrapped Python value (None, "", 0 are false)
Truthy(x) ==
    CASE x.t = "None" -> FALSE
      [] x.t = "str"  -> x.v # ""
      [] x.t = "int"  -> x.v # 0
      [] x.t = "bool" -> x.v
      [] OTHER        -> TRUE

\* d[k] = v
Put(d, k, v) == [x \in DOMAIN d \cup {k} |-> IF x = k THEN v ELSE d[x]]

\* min(a, b)
Min(a, b) == IF a <= b THEN a ELSE b

-----------------------------------------------------------------------------
(* Strings.                                                                *)

\* symptom reports: none, one and three "other" matches, the two end-to-end
\* scenarios of the specification, two and three FAST categories, six "other"
Texts ==
    <<"",
      "mild dizziness",
      "dizziness confusion vision loss",
      "my face is drooping and I can't speak",
      "Face Drooping and slurred speech",
      "face drooping arm weakness slurred speech",
      "sudden headache severe headache worst headache vision loss double vision dizziness">>

\* a voice transcript used only as voice_text
VoiceOnlyText == "arm numb and can't smile"

\* the FAST stroke indicators of analyze_stroke_symptoms
face_symptoms ==
    <<"face drooping", "facial droop", "face droop", "one side of face",
      "smile uneven", "can't smile", "mouth drooping", "facial weakness",
      "numb face", "face feels strange">>

arm_symptoms ==
    <<"arm weakness", "can't lift arm", "arm feels heavy", "arm numb",
      "one arm weak", "arm tingling", "can't raise arm", "arm paralyzed",
      "hand weakness", "drop arm">>

speech_symptoms ==
    <<"slurred speech", "can't speak", "speech unclear", "difficulty speaking",
      "words don't come out", "trouble talking", "speech problems",
      "mumbling", "can't find words", "confused speech">>

other_stroke_symptoms ==
    <<"sudden headache", "severe headache", "worst headache", "vision loss",
      "double vision", "blurred vision", "dizziness", "loss of balance",
      "confusion", "sudden numbness", "sudden weakness">>

\* the strings of a list joined by ", "
RECURSIVE Join(_)
Join(strs) ==
    IF strs = <<>> THEN ""
    ELSE IF Len(strs) = 1 THEN strs[1]
    ELSE strs[1] \o ", " \o Join(Tail(strs))

\* a report naming the first f, a, s, o indicators of the four categories
Report(f, a, s, o) ==
    Join(SubSeq(face_symptoms, 1, f) \o SubSeq(arm_symptoms, 1, a)
         \o SubSeq(speech_symptoms, 1, s) \o SubSeq(other_stroke_symptoms, 1, o))

\* reports with at most one indicator of each FAST category named and up to
\* MaxOtherMatches other indicators
Reports == {Report(f, a, s, o) : f, a, s \in 0..1, o \in 0..MaxOtherMatches}

\* every string the model hands to the symptom agent
Utterances == {Texts[i] : i \in 1..Len(Texts)} \cup {VoiceOnlyText} \cup Reports

UpperChars == <<"A","B","C","D","E","F","G","H","I","J","K","L","M",
                "N","O","P","Q","R","S","T","U","V","W","X","Y","Z">>
LowerChars == <<"a","b","c","d","e","f","g","h","i","j","k","l","m",
                "n","o","p","q","r","s","t","u","v","w","x","y","z">>
DigitChars == {"0","1","2","3","4","5","6","7","8","9"}

LowerChar(c) ==
    IF \E i \in 1..26 : UpperChars[i] = c
    THEN LowerChars[CHOOSE i \in 1..26 : UpperChars[i] = c]
    ELSE c

\* s[i-1:j].lower(), by halves
RECURSIVE LowerRange(_, _, _)
LowerRange(s, i, j) ==
    IF i > j THEN ""
    ELSE IF i = j THEN LowerChar(SubSeq(s, i, i))
    ELSE LowerRange(s, i, (i + j) \div 2) \o LowerRange(s, (i + j) \div 2 + 1, j)

\* the characters matched by \w or \s
IsWordOrSpace(c) ==
    \/ \E i \in 1..26 : UpperChars[i] = c \/ LowerChars[i] = c
    \/ c \in DigitChars
    \/ c = "_"
    \/ c = " "

\* re.sub(r'[^\w\s]', '', s[i-1:j]), by halves
RECURSIVE StripRange(_, _, _)
StripRange(s, i, j) ==
    IF i > j THEN ""
    ELSE IF i = j THEN (IF IsWordOrSpace(SubSeq(s, i, i)) THEN SubSeq(s, i, i) ELSE "")
    ELSE StripRange(s, i, (i + j) \div 2) \o StripRange(s, (i + j) \div 2 + 1, j)

\* re.sub(r'[^\w\s]', '', s), tabulated over the strings of the model
StripTable == [s \in Utterances |-> StripRange(s, 1, Len(s))] @@ <<>>
StripPunctuation(s) == StripTable[s]

\* the strings that reach str.lower(): the utterances, raw or cleaned
CleanedUtterances == {StripRange(s, 1, Len(s)) : s \in Utterances}

\* str.lower(), tabulated over the strings of the model
LowerTable == [s \in Utterances \cup CleanedUtterances |-> LowerRange(s, 1, Len(s))] @@ <<>>
Lower(s) == LowerTable[s]

\* pat in text (substring containment)
Contains(text, pat) ==
    \E i \in 1..(Len(text) - Len(pat) + 1) : SubSeq(text, i, i + Len(pat) - 1) = pat

-----------------------------------------------------------------------------
(* Symptom agent (symptom_agent.py).                                       *)

medical_keywords ==
    <<"pain", "headache", "weakness", "numbness", "tingling", "dizziness",
      "nausea", "vomiting", "confusion", "speech", "vision", "balance",
      "coordination", "paralysis", "drooping", "slurred">>

\* the matching loops: the indicators of a list found in the text, in list order
MatchSymptoms(indicators, text) ==
    SelectSeq(indicators, LAMBDA symptom : Contains(text, symptom))

\* the composite score computed from the matched indicators
\* variant of FastScore that counts every matched FAST indicator
FastScore_PerMatch(detected_symptoms) ==
    3 * Len(detected_symptoms.face) + 3 * Len(detected_symptoms.arm)
    + 3 * Len(detected_symptoms.speech) + Len(detected_symptoms.other)
FastScore(detected_symptoms) ==
    (IF detected_symptoms.face # <<>> THEN 3 ELSE 0)
    + (IF detected_symptoms.arm # <<>> THEN 3 ELSE 0)
    + (IF detected_symptoms.speech # <<>> THEN 3 ELSE 0)
    + (IF detected_symptoms.other # <<>> THEN Len(detected_symptoms.other) ELSE 0)

\* variant of Severity that is critical only above 6
Severity_Above6(fast_score) ==
    IF fast_score > 6 THEN "critical"
    ELSE IF fast_score >= 3 THEN "warning"
    ELSE "normal"
Severity(fast_score) ==
    IF fast_score >= 6 THEN "critical"
    ELSE IF fast_score >= 3 THEN "warning"
    ELSE "normal"

Recommendation(fast_score) ==
    IF fast_score >= 6 THEN "IMMEDIATE EMERGENCY RESPONSE REQUIRED"
    ELSE IF fast_score >= 3 THEN "Seek immediate medical attention"
    ELSE "Monitor symptoms, consult healthcare provider if concerned"

\* analyze_stroke_symptoms(input_text, patient_id); t is the clock it reads
analyze_stroke_symptoms(input_text, pid, t) ==
    LET text == Lower(input_text)
        detected_symptoms ==
            [face   |-> MatchSymptoms(face_symptoms, text),
             arm    |-> MatchSymptoms(arm_symptoms, text),
             speech |-> MatchSymptoms(speech_symptoms, text),
             other  |-> MatchSymptoms(other_stroke_symptoms, text)]
        fast_score == FastScore(detected_symptoms)
    IN  [status            |-> "success",
         patient_id        |-> pid,
         input_text        |-> text,
         detected_symptoms |-> detected_symptoms,
         fast_score        |-> fast_score,
         severity          |-> Severity(fast_score),
         recommendation    |-> Recommendation(fast_score),
         timestamp         |-> t,
         requires_triage   |-> (fast_score >= 3)]

\* extract_symptom_keywords(input_text)
extract_symptom_keywords(input_text) ==
    MatchSymptoms(medical_keywords, Lower(input_text))

\* process_voice_input(voice_text, patient_id)
process_voice_input(voice_text, pid, t) ==
    LET cleaned_text == StripPunctuation(voice_text)
    IN  [status              |-> "success",
         patient_id          |-> pid,
         original_voice_text |-> voice_text,
         cleaned_text        |-> cleaned_text,
         extracted_keywords  |-> extract_symptom_keywords(cleaned_text),
         symptom_analysis    |-> analyze_stroke_symptoms(cleaned_text, pid, t),
         timestamp           |-> t]

-----------------------------------------------------------------------------
(* Triage agent (triage_agent.py).                                         *)

\* the FAST flags read from symptom_data["detected_symptoms"]
FastFlags(symptom_data_) ==
    LET has == "detected_symptoms" \in DOMAIN symptom_data_
        symptoms == IF has THEN symptom_data_.detected_symptoms ELSE EmptyDict
    IN  [face   |-> has /\ Get(symptoms, "face", <<>>) # <<>>,
         arms   |-> has /\ Get(symptoms, "arm", <<>>) # <<>>,
         speech |-> has /\ Get(symptoms, "speech", <<>>) # <<>>]

\* variant of OtherUrgency without the cap of 10
OtherUrgency_Uncapped(symptom_data_) ==
    IF /\ "detected_symptoms" \in DOMAIN symptom_data_
       /\ Get(symptom_data_.detected_symptoms, "other", <<>>) # <<>>
    THEN Len(symptom_data_.detected_symptoms.other) * 2
    ELSE 0

\* the contribution of the "other" matches to the urgency score
OtherUrgency(symptom_data_) ==
    IF /\ "detected_symptoms" \in DOMAIN symptom_data_
       /\ Get(symptom_data_.detected_symptoms, "other", <<>>) # <<>>
    THEN Min(10, Len(symptom_data_.detected_symptoms.other) * 2)
    ELSE 0

\* the urgency score (0-100) accumulated from the flags and the other matches
UrgencyScore(symptom_data_) ==
    LET f == FastFlags(symptom_data_)
    IN  (IF f.face THEN 30 ELSE 0) + (IF f.arms THEN 30 ELSE 0)
        + (IF f.speech THEN 30 ELSE 0) + OtherUrgency(symptom_data_)

\* variant of TriageLevel with strict comparisons
TriageLevel_Strict(urgency_score) ==
    IF urgency_score > 70 THEN
        [triage_level |-> "IMMEDIATE", triage_color |-> "RED",
         estimated_response_time |-> "0-5 minutes"]
    ELSE IF urgency_score > 40 THEN
        [triage_level |-> "URGENT", triage_color |-> "YELLOW",
         estimated_response_time |-> "5-15 minutes"]
    ELSE IF urgency_score > 20 THEN
        [triage_level |-> "SEMI-URGENT", triage_color |-> "GREEN",
         estimated_response_time |-> "30-60 minutes"]
    ELSE
        [triage_level |-> "NON-URGENT", triage_color |-> "BLUE",
         estimated_response_time |-> "2-4 hours"]

\* the triage-level scan: the first threshold met, from the highest
TriageLevel(urgency_score) ==
    IF urgency_score >= 70 THEN
        [triage_level |-> "IMMEDIATE", triage_color |-> "RED",
         estimated_response_time |-> "0-5 minutes"]
    ELSE IF urgency_score >= 40 THEN
        [triage_level |-> "URGENT", triage_color |-> "YELLOW",
         estimated_response_time |-> "5-15 minutes"]
    ELSE IF urgency_score >= 20 THEN
        [triage_level |-> "SEMI-URGENT", triage_color |-> "GREEN",
         estimated_response_time |-> "30-60 minutes"]
    ELSE
        [triage_level |-> "NON-URGENT", triage_color |-> "BLUE",
         estimated_response_time |-> "2-4 hours"]

\* perform_fast_assessment(symptom_data, patient_id)
\* variant of perform_fast_assessment whose two flags use strict comparisons
perform_fast_assessment_StrictFlags(symptom_data_, pid, t) ==
    LET f == FastFlags(symptom_data_)
        urgency_score == UrgencyScore(symptom_data_)
        level == TriageLevel(urgency_score)
    IN  [status                       |-> "success",
         patient_id                   |-> pid,
         fast_assessment              |-> f @@ [time |-> t],
         urgency_score                |-> urgency_score,
         triage_level                 |-> level.triage_level,
         triage_color                 |-> level.triage_color,
         estimated_response_time      |-> level.estimated_response_time,
         requires_immediate_attention |-> (urgency_score > 70),
         requires_emergency_transport |-> (urgency_score > 40),
         timestamp                    |-> t]
perform_fast_assessment(symptom_data_, pid, t) ==
    LET f == FastFlags(symptom_data_)
        urgency_score == UrgencyScore(symptom_data_)
        level == TriageLevel(urgency_score)
    IN  [status                       |-> "success",
         patient_id                   |-> pid,
         fast_assessment              |-> f @@ [time |-> t],
         urgency_score                |-> urgency_score,
         triage_level                 |-> level.triage_level,
         triage_color                 |-> level.triage_color,
         estimated_response_time      |-> level.estimated_response_time,
         requires_immediate_attention |-> (urgency_score >= 70),
         requires_emergency_transport |-> (urgency_score >= 40),
         timestamp                    |-> t]

\* variant of RiskCategory whose cut points are strict
RiskCategory_Strict(total_risk_score) ==
    IF total_risk_score > 80 THEN
        [risk_category |-> "VERY HIGH", action_required |-> "IMMEDIATE EMERGENCY RESPONSE"]
    ELSE IF total_risk_score > 60 THEN
        [risk_category |-> "HIGH", action_required |-> "Emergency transport required"]
    ELSE IF total_risk_score > 40 THEN
        [risk_category |-> "MODERATE", action_required |-> "Urgent medical evaluation"]
    ELSE IF total_risk_score > 20 THEN
        [risk_category |-> "LOW-MODERATE", action_required |-> "Medical assessment recommended"]
    ELSE
        [risk_category |-> "LOW", action_required |-> "Monitor symptoms"]

\* the risk categories by total_risk_score
RiskCategory(total_risk_score) ==
    IF total_risk_score >= 80 THEN
        [risk_category |-> "VERY HIGH", action_required |-> "IMMEDIATE EMERGENCY RESPONSE"]
    ELSE IF total_risk_score >= 60 THEN
        [risk_category |-> "HIGH", action_required |-> "Emergency transport required"]
    ELSE IF total_risk_score >= 40 THEN
        [risk_category |-> "MODERATE", action_required |-> "Urgent medical evaluation"]
    ELSE IF total_risk_score >= 20 THEN
        [risk_category |-> "LOW-MODERATE", action_required |-> "Medical assessment recommended"]
    ELSE
        [risk_category |-> "LOW", action_required |-> "Monitor symptoms"]

\* calculate_stroke_risk_score(patient_data)
calculate_stroke_risk_score(patient_data, t) ==
    LET acute == IF "symptom_analysis" \in DOMAIN patient_data
                 THEN Min(40, Get(patient_data.symptom_analysis, "fast_score", 0) * 5)
                 ELSE 0
        severity == Get(patient_data, "severity", "normal")
        sev == IF severity = "critical" THEN 40
               ELSE IF severity = "warning" THEN 20 ELSE 0
        risk_factors == [acute_symptoms |-> acute, severity |-> sev,
                         duration |-> 15, progression |-> 0]
        total_risk_score == risk_factors.acute_symptoms + risk_factors.severity
                            + risk_factors.duration + risk_factors.progression
        cat == RiskCategory(total_risk_score)
    IN  [status           |-> "success",
         risk_factors     |-> risk_factors,
         total_risk_score |-> total_risk_score,
         risk_category    |-> cat.risk_category,
         action_required  |-> cat.action_required,
         timestamp        |-> t]

\* sorted(seq, key=lambda x: x.get("urgency_score", 0), reverse=True):
\* a stable sort, elements with equal keys keep their order
RECURSIVE SortedByUrgencyDesc(_)
\* variant of InsertByUrgency that puts x before the elements of equal key
\* (what reversing an ascending sort does)
InsertByUrgency_BeforeEqual(sorted, x) ==
    LET key(e) == Get(e, "urgency_score", 0)
        n == Cardinality({i \in 1..Len(sorted) : key(sorted[i]) > key(x)})
    IN  SubSeq(sorted, 1, n) \o <<x>> \o SubSeq(sorted, n + 1, Len(sorted))
InsertByUrgency(sorted, x) ==
    LET key(e) == Get(e, "urgency_score", 0)
        \* x goes after every element whose key is >= its own
        n == Cardinality({i \in 1..Len(sorted) : key(sorted[i]) >= key(x)})
    IN  SubSeq(sorted, 1, n) \o <<x>> \o SubSeq(sorted, n + 1, Len(sorted))
SortedByUrgencyDesc(seq) ==
    IF seq = <<>> THEN <<>>
    ELSE InsertByUrgency(SortedByUrgencyDesc(SubSeq(seq, 1, Len(seq) - 1)), seq[Len(seq)])

\* prioritize_patient_queue(patients)
prioritize_patient_queue(patients_, t) ==
    LET sorted_patients == SortedByUrgencyDesc(patients_)
        priority_queue ==
            [i \in 1..Len(sorted_patients) |->
                [priority_rank           |-> i,
                 patient_id              |-> Get(sorted_patients[i], "patient_id", None),
                 urgency_score           |-> Get(sorted_patients[i], "urgency_score", 0),
                 triage_level            |-> Get(sorted_patients[i], "triage_level", None),
                 estimated_response_time |->
                     Get(sorted_patients[i], "estimated_response_time", None)]]
    IN  [status         |-> "success",
         queue_size     |-> Len(priority_queue),
         priority_queue |-> priority_queue,
         timestamp      |-> t]

-----------------------------------------------------------------------------
(* Alert agent (alert_agent.py).                                           *)

\* the recipient table, selected by the urgency score
AlertRecipients(urgency_score) ==
    IF urgency_score >= 70 THEN
        <<[type |-> "911", status |-> "dispatched", eta |-> "5-8 minutes"],
          [type |-> "stroke_team", status |-> "activated", eta |-> "immediate"],
          [type |-> "emergency_contact", status |-> "notified", method |-> "call"],
          [type |-> "hospital", status |-> "alerted", preparation |-> "stroke_protocol"]>>
    ELSE IF urgency_score >= 40 THEN
        <<[type |-> "emergency_services", status |-> "notified", eta |-> "10-15 minutes"],
          [type |-> "emergency_contact", status |-> "notified", method |-> "call"],
          [type |-> "primary_care", status |-> "notified", method |-> "message"]>>
    ELSE IF urgency_score >= 20 THEN
        <<[type |-> "emergency_contact", status |-> "notified", method |-> "text"],
          [type |-> "primary_care", status |-> "notified", method |-> "secure_message"]>>
    ELSE <<>>

\* send_emergency_alert(patient_id, triage_data)
send_emergency_alert(pid, triage_data, t) ==
    LET urgency_score == Get(triage_data, "urgency_score", 0)
        triage_level == Get(triage_data, "triage_level", "UNKNOWN")
        alert_recipients == AlertRecipients(urgency_score)
        dispatch_info ==
            [alert_id      |-> <<"ALERT", t>>,
             patient_id    |-> pid,
             urgency_level |-> triage_level,
             urgency_score |-> urgency_score,
             recipients    |-> alert_recipients,
             timestamp     |-> t,
             alert_message |-> <<"Stroke alert for patient", pid, triage_level, "priority">>]
    IN  [status                  |-> "success",
         dispatch_info           |-> dispatch_info,
         total_recipients        |-> Len(alert_recipients),
         estimated_response_time |-> Get(triage_data, "estimated_response_time", "unknown")]

DefaultLocation ==
    [address      |-> "123 Main St, Anytown, ST 12345",
     coordinates  |-> "37.7749,-122.4194",
     access_notes |-> "Front door, apartment 2B"]

\* the response resources, selected by the urgency score
ResponseUnits(urgency_score) ==
    IF urgency_score >= 70 THEN
        <<[unit |-> "Advanced Life Support", eta |-> "4-6 minutes", crew |-> "paramedic_team"],
          [unit |-> "Stroke Response Unit", eta |-> "8-12 minutes", equipment |-> "mobile_ct"],
          [unit |-> "Fire Department", eta |-> "3-5 minutes", role |-> "first_responder"]>>
    ELSE IF urgency_score >= 40 THEN
        <<[unit |-> "Basic Life Support", eta |-> "8-12 minutes", crew |-> "emt_team"],
          [unit |-> "Supervisor Unit", eta |-> "10-15 minutes", role |-> "assessment"]>>
    ELSE
        <<[unit |-> "Non-Emergency Transport", eta |-> "20-30 minutes", crew |-> "transport_team"]>>

HospitalPrep(urgency_score) ==
    IF urgency_score >= 70 THEN
        [stroke_team_activated |-> TRUE, ct_scanner_reserved |-> TRUE,
         thrombolytic_ready |-> TRUE, neuro_surgeon_notified |-> TRUE]
    ELSE IF urgency_score >= 40 THEN
        [emergency_dept_notified |-> TRUE, neurology_consulted |-> TRUE]
    ELSE
        [outpatient_referral |-> TRUE]

\* coordinate_emergency_response(patient_id, location_data, medical_data)
coordinate_emergency_response(pid, location_data, medical_data, t) ==
    LET location == IF DOMAIN location_data = {} THEN DefaultLocation ELSE location_data
        urgency_score == Get(medical_data, "urgency_score", 0)
    IN  [status                   |-> "success",
         response_id              |-> <<"EMS", t>>,
         patient_id               |-> pid,
         location                 |-> location,
         response_units           |-> ResponseUnits(urgency_score),
         hospital_preparation     |-> HospitalPrep(urgency_score),
         estimated_scene_time     |-> "15-25 minutes",
         estimated_transport_time |-> "10-20 minutes",
         receiving_hospital       |-> "Regional Medical Center - Stroke Center",
         timestamp                |-> t]

-----------------------------------------------------------------------------
(* Care agent (care_agent.py).                                             *)

BaseInstructions ==
    [immediate_actions |->
        <<"Call 911 immediately if not already done",
          "Keep patient calm and comfortable",
          "Note the time symptoms started",
          "Do NOT give food, water, or medications">>,
     positioning |->
        <<"Keep patient lying down with head slightly elevated",
          "Turn head to side if vomiting occurs",
          "Loosen tight clothing around neck">>,
     monitoring |->
        <<"Watch for changes in consciousness",
          "Monitor breathing",
          "Check for speech difficulties",
          "Observe for facial drooping or arm weakness">>,
     do_not_do |->
        <<"Do not give aspirin or other medications",
          "Do not give food or water",
          "Do not leave patient alone",
          "Do not allow patient to drive">>]

FaceCare ==
    [face_care |-> <<"Support affected side of face if drooping",
                     "Clear any saliva from mouth",
                     "Speak clearly and slowly to patient">>]
ArmCare ==
    [arm_care |-> <<"Support weakened arm with pillow",
                    "Do not force movement of affected limb",
                    "Protect arm from injury">>]
Communication ==
    [communication |-> <<"Be patient with speech difficulties",
                         "Use yes/no questions",
                         "Give patient time to respond",
                         "Speak slowly and clearly">>]
CriticalCare ==
    [critical_care |-> <<"Prepare for immediate transport",
                         "Gather all medications patient is taking",
                         "Have insurance information ready",
                         "Designate someone to accompany patient">>]

\* provide_immediate_care_instructions(patient_id, stroke_assessment)
provide_immediate_care_instructions(pid, stroke_assessment, t) ==
    LET urgency_score == Get(stroke_assessment, "urgency_score", 0)
        fast_assessment == Get(stroke_assessment, "fast_assessment", EmptyDict)
        instructions ==
            BaseInstructions
            @@ (IF Get(fast_assessment, "face", FALSE) THEN FaceCare ELSE EmptyDict)
            @@ (IF Get(fast_assessment, "arms", FALSE) THEN ArmCare ELSE EmptyDict)
            @@ (IF Get(fast_assessment, "speech", FALSE) THEN Communication ELSE EmptyDict)
            @@ (IF urgency_score >= 70 THEN CriticalCare ELSE EmptyDict)
    IN  [status            |-> "success",
         patient_id        |-> pid,
         care_instructions |-> instructions,
         urgency_level     |-> Get(stroke_assessment, "triage_level", "UNKNOWN"),
         timestamp         |-> t]

BaseGuidance ==
    [emotional_support |->
        [for_patient |-> <<"Remain calm and reassuring",
                           "Hold patient's hand for comfort",
                           "Speak in normal, calm voice",
                           "Tell patient help is on the way">>,
         for_family  |-> <<"Stay calm to help the patient stay calm",
                           "Take turns monitoring patient",
                           "Designate one person to communicate with emergency services",
                           "Gather important medical information">>],
     information_gathering |->
        <<"List of current medications", "Known allergies",
          "Medical history and conditions", "Recent changes in health",
          "Time symptoms first appeared">>,
     logistics |->
        <<"Identify who will accompany patient to hospital",
          "Arrange care for other family members/pets",
          "Gather insurance cards and ID",
          "Notify other family members as appropriate">>,
     hospital_preparation |->
        <<"Pack small bag with essentials",
          "Bring list of emergency contacts",
          "Prepare questions for medical team",
          "Understand visiting policies">>]

CriticalSituation ==
    [critical_situation |->
        <<"Time is critical - stroke treatment works best within first hours",
          "Hospital may need to act quickly",
          "Be prepared for rapid medical decisions",
          "Consider notifying other family members immediately">>]

\* guide_family_support(patient_id, situation_data)
guide_family_support(pid, situation_data, t) ==
    LET urgency_score == Get(situation_data, "urgency_score", 0)
        guidance == BaseGuidance
                    @@ (IF urgency_score >= 70 THEN CriticalSituation ELSE EmptyDict)
    IN  [status          |-> "success",
         patient_id      |-> pid,
         family_guidance |-> guidance,
         resources       |-> [stroke_hotline |-> "1-888-4-STROKE",
                              american_stroke_association |-> "stroke.org",
                              local_support_groups |-> "Contact hospital social services"],
         timestamp       |-> t]

-----------------------------------------------------------------------------
(* Follow-up agent (followup_agent.py).                                    *)

\* datetime.fromisoformat on the timestamps the model uses: minutes since
\* 2025-01-01T00:00:00 for a well-formed string, no entry otherwise
IsoMinutes ==
    [s \in {"2025-01-01T08:00:00", "2025-01-01T12:29:00",
            "2025-01-01T12:30:00", "2025-01-01T12:31:00"} |->
        CASE s = "2025-01-01T08:00:00" -> 480
          [] s = "2025-01-01T12:29:00" -> 749
          [] s = "2025-01-01T12:30:00" -> 750
          [] s = "2025-01-01T12:31:00" -> 751]

Parsable(x) == x.t = "str" /\ x.v \in DOMAIN IsoMinutes

\* the door_to_needle_eligible entry added to outcomes, when it is added
DoorToNeedle(symptom_onset, hospital_arrival) ==
    IF Truthy(symptom_onset) /\ Truthy(hospital_arrival)
    THEN IF Parsable(symptom_onset) /\ Parsable(hospital_arrival)
         THEN [door_to_needle_eligible |->
                  PyBool(IsoMinutes[hospital_arrival.v] - IsoMinutes[symptom_onset.v] <= 270)]
         ELSE [door_to_needle_eligible |-> None]
    ELSE EmptyDict

\* log_stroke_event(patient_id, event_data)
log_stroke_event(pid, event_data, t) ==
    LET timeline ==
            [symptom_onset    |-> Get(event_data, "symptom_onset_time", None),
             first_assessment |-> Get(event_data, "assessment_time", None),
             emergency_called |-> Get(event_data, "emergency_call_time", None),
             response_arrival |-> Get(event_data, "response_arrival_time", None),
             hospital_arrival |-> Get(event_data, "hospital_arrival_time", None)]
        outcomes ==
            [fast_score       |-> Get(event_data, "fast_score", 0),
             urgency_level    |-> Get(event_data, "urgency_level", None),
             response_time    |-> Get(event_data, "total_response_time", None),
             treatment_window |-> Get(event_data, "treatment_window_status", None)]
            @@ DoorToNeedle(timeline.symptom_onset, timeline.hospital_arrival)
        stroke_log ==
            [event_id          |-> <<"STROKE", t>>,
             patient_id        |-> pid,
             event_timestamp   |-> t,
             initial_symptoms  |-> Get(event_data, "symptom_analysis", EmptyDict),
             triage_assessment |-> Get(event_data, "triage_data", EmptyDict),
             emergency_response |-> Get(event_data, "alert_data", EmptyDict),
             care_provided     |-> Get(event_data, "care_instructions", EmptyDict),
             timeline          |-> timeline,
             outcomes          |-> outcomes]
    IN  [status           |-> "success",
         event_id         |-> <<"STROKE", t>>,
         patient_id       |-> pid,
         log_entry        |-> stroke_log,
         storage_location |-> <<"stroke_events", <<"STROKE", t>>, "json">>,
         timestamp        |-> t]

-----------------------------------------------------------------------------
(* Coordinator (coordinator.py): the steps of orchestrate_stroke_detection.*)

\* the record built on entry, at time t
InitialRecord(pid, t) ==
    [workflow_id     |-> <<"WORKFLOW", t>>,
     patient_id      |-> pid,
     start_time      |-> t,
     status          |-> "in_progress",
     agents_executed |-> <<>>,
     timeline        |-> EmptyDict,
     results         |-> EmptyDict]

\* variant of Record that leaves the timeline as it is
Record_NoTimeline(wr, agent, stage, t1, t2, t3, new_results) ==
    [wr EXCEPT !.agents_executed = Append(@, agent),
               !.results = new_results @@ @]

\* what a step records once its agents returned: the agent name, the timeline
\* entry (start read at t1, end at t2, duration at t3) and the step's results
Record(wr, agent, stage, t1, t2, t3, new_results) ==
    [wr EXCEPT !.agents_executed = Append(@, agent),
               !.timeline = Put(@, stage, [start |-> t1, end |-> t2,
                                           duration_seconds |-> t3 - t1]),
               !.results = new_results @@ @]

\* input_data.get("text", "") or input_data.get("voice_text", "")
InputText(input) ==
    LET text == Get(input, "text", PyStr(""))
    IN  IF Truthy(text) THEN text ELSE Get(input, "voice_text", PyStr(""))

\* input_data.get("input_type") == "voice"
IsVoice(input) == "input_type" \in DOMAIN input /\ input.input_type = "voice"

\* input_data.get raises when input_data is None; str.lower() and re.sub()
\* raise on a value that is no str
SymptomStepRaises(input) == input = None \/ InputText(input).t # "str"

SymptomStepError(input) ==
    IF input = None THEN "'NoneType' object has no attribute 'get'"
    ELSE IF IsVoice(input) THEN "expected string or bytes-like object"
    ELSE "object has no attribute 'lower'"

\* Step 1: symptom detection and analysis
SymptomStep(wr, pid, input, t1, t2, t3) ==
    LET input_text == InputText(input).v
        symptom_results == IF IsVoice(input)
                           THEN process_voice_input(input_text, pid, t2)
                           ELSE analyze_stroke_symptoms(input_text, pid, t2)
    IN  Record(wr, "symptom_agent", "symptom_analysis", t1, t2, t3,
               [symptom_analysis |-> symptom_results])

\* symptom_results.get("requires_triage", False)
TriageCondition(symptom_results) == Get(symptom_results, "requires_triage", FALSE)

\* where the coordinator goes after step 1: "if symptoms detected"
AfterSymptoms(symptom_results) ==
    IF TriageCondition(symptom_results) THEN "step2" ELSE "step5"

\* Step 2: triage assessment
TriageStep(wr, pid, t1, t2, t3) ==
    LET symptom_results == wr.results.symptom_analysis
        triage == perform_fast_assessment(symptom_results, pid, t2)
        risk_score == calculate_stroke_risk_score(
                          [symptom_analysis |-> symptom_results,
                           severity |-> Get(symptom_results, "severity", "normal")], t2)
    IN  Record(wr, "triage_agent", "triage_assessment", t1, t2, t3,
               [triage_assessment |-> triage, risk_assessment |-> risk_score])

\* variant of AlertCondition that alerts from urgency_score 20
AlertCondition_FromTwenty(triage) ==
    \/ Get(triage, "requires_immediate_attention", FALSE)
    \/ Get(triage, "urgency_score", 0) >= 20
\* variant of AlertCondition without the urgency_score test
AlertCondition_OnlyImmediate(triage) ==
    Get(triage, "requires_immediate_attention", FALSE)

\* requires_immediate_attention or urgency_score >= 40
AlertCondition(triage) ==
    \/ Get(triage, "requires_immediate_attention", FALSE)
    \/ Get(triage, "urgency_score", 0) >= 40

\* variant of AfterTriage with step 4 nested in the "if urgent" block
AfterTriage_CareUnderAlert(triage) ==
    IF Get(triage, "requires_immediate_attention", FALSE)
       \/ Get(triage, "urgency_score", 0) >= 40
    THEN "step3" ELSE "step5"

\* where the coordinator goes after step 2: step 3 "if urgent", else step 4
AfterTriage(triage) ==
    IF AlertCondition(triage) THEN "step3" ELSE "step4"

\* Step 3: emergency alert
AlertStep(wr, pid, input, triage, t1, t2, t3) ==
    Record(wr, "alert_agent", "emergency_alert", t1, t2, t3,
           [emergency_alert |-> send_emergency_alert(pid, triage, t2),
            response_coordination |->
                coordinate_emergency_response(pid, Get(input, "location", EmptyDict),
                                              triage, t2)])

\* Step 4: care instructions
CareStep(wr, pid, triage, t1, t2, t3) ==
    Record(wr, "care_agent", "care_instructions", t1, t2, t3,
           [care_instructions |-> provide_immediate_care_instructions(pid, triage, t2),
            family_guidance |-> guide_family_support(pid, triage, t2)])

\* variant of LoggingStep that does not store the event log in the results
LoggingStep_NotStored(wr, pid, t1, t2, t3) ==
    Record(wr, "followup_agent", "event_logging", t1, t2, t3, EmptyDict)
\* Step 5: event logging
LoggingStep(wr, pid, t1, t2, t3) ==
    Record(wr, "followup_agent", "event_logging", t1, t2, t3,
           [event_log |-> log_stroke_event(pid, wr.results, t2)])

\* generate_workflow_summary(workflow_data)
generate_workflow_summary(workflow_data) ==
    LET results == Get(workflow_data, "results", EmptyDict)
        symptom == results.symptom_analysis
        detected == Get(symptom, "detected_symptoms", EmptyDict)
        triage == results.triage_assessment
        action(key, text) == IF key \in DOMAIN results THEN <<text>> ELSE <<>>
    IN  [patient_id     |-> Get(workflow_data, "patient_id", None),
         workflow_id    |-> Get(workflow_data, "workflow_id", None),
         total_agents   |-> Len(Get(workflow_data, "agents_executed", <<>>)),
         execution_time |-> Get(workflow_data, "total_duration_seconds", None),
         status         |-> Get(workflow_data, "status", None),
         actions_taken  |->
             action("emergency_alert", "Emergency services alerted")
             \o action("care_instructions", "Care instructions provided")
             \o action("family_guidance", "Family guidance delivered")
             \o action("event_log", "Event logged for follow-up")]
        @@ (IF "symptom_analysis" \in DOMAIN results
            THEN [stroke_symptoms_detected |->
                      \E c \in DOMAIN detected : Len(detected[c]) > 0,
                  fast_score       |-> Get(symptom, "fast_score", 0),
                  symptom_severity |-> Get(symptom, "severity", "normal")]
            ELSE EmptyDict)
        @@ (IF "triage_assessment" \in DOMAIN results
            THEN [urgency_score      |-> Get(triage, "urgency_score", 0),
                  triage_level       |-> Get(triage, "triage_level", "UNKNOWN"),
                  requires_emergency |-> Get(triage, "requires_immediate_attention", FALSE)]
            ELSE EmptyDict)

\* sum(timing.get("duration_seconds", 0) for timing in timeline.values())
RECURSIVE SumDurations(_, _)
SumDurations(timeline, steps) ==
    IF steps = {} THEN 0
    ELSE LET step == CHOOSE s \in steps : TRUE
         IN  Get(timeline[step], "duration_seconds", 0)
             + SumDurations(timeline, steps \ {step})

\* calculate_response_time_metrics(timeline) of utils/data_structures.py
calculate_response_time_metrics(timeline) ==
    LET timed == {s \in DOMAIN timeline : "duration_seconds" \in DOMAIN timeline[s]}
        keys == {s \o "_duration" : s \in timed}
    IN  [k \in keys |->
            timeline[CHOOSE s \in timed : s \o "_duration" = k].duration_seconds]
        @@ (IF DOMAIN timeline # {}
            THEN [total_workflow_duration |-> SumDurations(timeline, DOMAIN timeline)]
            ELSE EmptyDict)

\* validate_workflow_data(workflow_data) of utils/data_structures.py
validate_workflow_data(workflow_data) ==
    \A field \in {"workflow_id", "patient_id", "start_time", "status"} :
        field \in DOMAIN workflow_data
\* variant of Finish that records the sum of the stage durations as the total
Finish_SumOfStages(wr, start, t) ==
    Put(Put(Put(wr, "end_time", t), "total_duration_seconds",
            SumDurations(wr.timeline, DOMAIN wr.timeline)),
        "status", "completed")
\* variant of Finish that does not record the total duration
Finish_NoDuration(wr, start, t) ==
    Put(Put(wr, "end_time", t), "status", "completed")

\* "Complete workflow", before the summary: end_time read at t
Finish(wr, start, t) ==
    Put(Put(Put(wr, "end_time", t), "total_duration_seconds", t - start),
        "status", "completed")

\* "Generate summary"
Summarize(wr) == Put(wr, "summary", generate_workflow_summary(wr))

\* variant of HandleException that does not set the status
HandleException_KeepsStatus(wr, e, t) ==
    Put(Put(wr, "error", e), "end_time", t)

\* variant of HandleException that discards the results gathered so far
HandleException_DropsResults(wr, e, t) ==
    Put(Put(Put(Put(wr, "status", "error"), "error", e), "end_time", t),
        "results", EmptyDict)

\* the except clause: the fault e caught while the record is wr, at time t
HandleException(wr, e, t) ==
    Put(Put(Put(wr, "status", "error"), "error", e), "end_time", t)

\* the places where a fault can be raised: 0 none, 1..5 the agents of step
\* 1..5, 6 the summary
FaultPoints == 0..6

FaultText(k) == <<"fault raised at", k>>

\* the faults met in a batch: none, in step 1 (nothing recorded yet), in step
\* 4 (the triage result already recorded)
BatchFaultPoints == {0, 1, 4}

\* orchestrate_stroke_detection(patient_id, input_data) as one call: entered at
\* clock t0, the clock advancing by tick between two reads, fault the place
\* where an agent raises (besides the faults the input itself causes)
orchestrate_stroke_detection(pid, input, fault, t0, tick) ==
    LET T(k) == t0 + k * tick
        w0 == InitialRecord(pid, t0)
        LogAndFinish(w, c) ==
            IF fault = 5 THEN HandleException(w, FaultText(5), T(c + 2))
            ELSE LET w5 == LoggingStep(w, pid, T(c + 1), T(c + 2), T(c + 3))
                     done == Finish(w5, t0, T(c + 4))
                 IN  IF fault = 6 THEN HandleException(done, FaultText(6), T(c + 5))
                     ELSE Summarize(done)
        CareAndLog(w, triage, c) ==
            IF fault = 4 THEN HandleException(w, FaultText(4), T(c + 2))
            ELSE LogAndFinish(CareStep(w, pid, triage, T(c + 1), T(c + 2), T(c + 3)), c + 3)
    IN  IF SymptomStepRaises(input) THEN HandleException(w0, SymptomStepError(input), T(2))
        ELSE IF fault = 1 THEN HandleException(w0, FaultText(1), T(2))
        ELSE
          LET w1 == SymptomStep(w0, pid, input, T(1), T(2), T(3))
          IN  IF AfterSymptoms(w1.results.symptom_analysis) = "step2" THEN
                IF fault = 2 THEN HandleException(w1, FaultText(2), T(5))
                ELSE
                  LET w2 == TriageStep(w1, pid, T(4), T(5), T(6))
                      triage == w2.results.triage_assessment
                  IN  IF AfterTriage(triage) = "step3" THEN
                        IF fault = 3 THEN HandleException(w2, FaultText(3), T(8))
                        ELSE CareAndLog(AlertStep(w2, pid, input, triage, T(7), T(8), T(9)),
                                        triage, 9)
                      ELSE CareAndLog(w2, triage, 6)
              ELSE LogAndFinish(w1, 3)

\* the entry appended to processed_patients for one patient
ProcessedEntry(patient_data, workflow_result) ==
    [patient_id    |-> Get(patient_data, "patient_id", None),
     workflow_id   |-> Get(workflow_result, "workflow_id", None),
     status        |-> Get(workflow_result, "status", None),
     urgency_score |-> Get(Get(Get(workflow_result, "results", EmptyDict),
                               "triage_assessment", EmptyDict), "urgency_score", 0),
     summary       |-> Get(workflow_result, "summary", EmptyDict)]

\* variant of ProcessedPatients that leaves the loop at the first workflow
\* that ends with status "error"
ProcessedPatients_StopAtError(assessments, faults, t, tick) ==
    LET entries == [i \in 1..Len(assessments) |->
            ProcessedEntry(assessments[i],
                orchestrate_stroke_detection(Get(assessments[i], "patient_id", None),
                    assessments[i], faults[i], t + (i - 1) * tick, tick))]
        all == SubSeq(entries, 1, Len(assessments))
        failed == {i \in 1..Len(all) : all[i].status = "error"}
        last == IF failed = {} THEN Len(all)
                ELSE CHOOSE i \in failed : \A j \in failed : i <= j
    IN  SubSeq(all, 1, last)

\* the "Process each patient" loop: one entry per patient, in input order
ProcessedPatients(assessments, faults, t, tick) ==
    LET entries == [i \in 1..Len(assessments) |->
        ProcessedEntry(assessments[i],
            orchestrate_stroke_detection(Get(assessments[i], "patient_id", None),
                                         assessments[i], faults[i], t + (i - 1) * tick, tick))]
    IN  SubSeq(entries, 1, Len(assessments))

\* the "Create priority queue" part
PriorityQueue(processed_patients) ==
    LET sorted_patients == SortedByUrgencyDesc(processed_patients)
    IN  [i \in 1..Len(sorted_patients) |->
            [priority_rank |-> i,
             patient_id    |-> sorted_patients[i].patient_id,
             urgency_score |-> sorted_patients[i].urgency_score,
             requires_immediate_attention |-> (sorted_patients[i].urgency_score >= 70)]]

\* process_batch_assessments(patient_assessments)
process_batch_assessments(assessments, faults, t, tick) ==
    LET processed_patients == ProcessedPatients(assessments, faults, t, tick)
    IN  [batch_id           |-> <<"BATCH", t>>,
         total_patients     |-> Len(assessments),
         processed_patients |-> processed_patients,
         priority_queue     |-> PriorityQueue(processed_patients),
         timestamp          |-> t]

-----------------------------------------------------------------------------
(* The tools of the ADK root agent (newfiles/multi_tool_agent/agent.py):   *)
(* copies of the agents' functions, prefixed here with agent_.             *)

\* the patient id a tool generates when it is given none
AutoPatientId(pid, t) == IF Truthy(pid) THEN pid ELSE PyStr("user-" \o ToString(t))

\* analyze_stroke_symptoms(input_text, patient_id=None) of agent.py
agent_analyze_stroke_symptoms(input_text, pid, t) ==
    LET text == Lower(input_text)
        detected_symptoms ==
            [face   |-> MatchSymptoms(face_symptoms, text),
             arm    |-> MatchSymptoms(arm_symptoms, text),
             speech |-> MatchSymptoms(speech_symptoms, text),
             other  |-> MatchSymptoms(other_stroke_symptoms, text)]
        fast_score == FastScore(detected_symptoms)
    IN  [status            |-> "success",
         patient_id        |-> AutoPatientId(pid, t),
         input_text        |-> text,
         detected_symptoms |-> detected_symptoms,
         fast_score        |-> fast_score,
         severity          |-> Severity(fast_score),
         recommendation    |-> Recommendation(fast_score),
         timestamp         |-> t,
         requires_triage   |-> (fast_score >= 3)]

\* the recipients send_emergency_alert of agent.py selects
agent_AlertRecipients(urgency_score) ==
    IF urgency_score >= 70 THEN
        <<[type |-> "911", status |-> "dispatched", eta |-> "5-8 minutes"],
          [type |-> "stroke_team", status |-> "activated", eta |-> "immediate"],
          [type |-> "emergency_contact", status |-> "notified", method |-> "call"],
          [type |-> "hospital", status |-> "alerted", preparation |-> "stroke_protocol"]>>
    ELSE IF urgency_score >= 40 THEN
        <<[type |-> "emergency_services", status |-> "notified", eta |-> "10-15 minutes"],
          [type |-> "emergency_contact", status |-> "notified", method |-> "call"],
          [type |-> "primary_care", status |-> "notified", method |-> "message"]>>
    ELSE <<>>

\* send_emergency_alert(patient_id, triage_data) of agent.py
agent_send_emergency_alert(pid, triage_data, t) ==
    LET urgency_score == Get(triage_data, "urgency_score", 0)
        triage_level == Get(triage_data, "triage_level", "UNKNOWN")
    IN  [status        |-> "success",
         alert_id      |-> <<"ALERT", t>>,
         patient_id    |-> pid,
         urgency_level |-> triage_level,
         recipients    |-> agent_AlertRecipients(urgency_score),
         timestamp     |-> t]
\* the instructions of provide_immediate_care_instructions of agent.py
agent_Instructions ==
    [immediate_actions |->
        <<"Call 911 immediately if not already done",
          "Keep patient calm and comfortable",
          "Note the time symptoms started",
          "Do NOT give food, water, or medications">>,
     positioning |->
        <<"Keep patient lying down with head slightly elevated",
          "Turn head to side if vomiting occurs",
          "Loosen tight clothing around neck">>,
     monitoring |->
        <<"Watch for changes in consciousness",
          "Monitor breathing",
          "Check for speech difficulties",
          "Observe for facial drooping or arm weakness">>]

\* provide_immediate_care_instructions(patient_id, stroke_assessment) of agent.py
agent_provide_immediate_care_instructions(pid, stroke_assessment, t) ==
    [status            |-> "success",
     patient_id        |-> pid,
     care_instructions |-> agent_Instructions,
     urgency_level     |-> Get(stroke_assessment, "triage_level", "UNKNOWN"),
     timestamp         |-> t]
\* what the camera gives analyze_webcam_fast_symptoms: a capture error, or
\* the 0 or 25 points of each of the three visual tests
Webcams ==
    {[status |-> "error"]}
    \cup {[status |-> "success", face |-> f, arms |-> a, speech |-> s] :
              f, a, s \in {0, 25}}

\* analyze_webcam_fast_symptoms() of agent.py, the camera giving webcam
agent_analyze_webcam_fast_symptoms(webcam, t) ==
    IF webcam.status = "error"
    THEN [status |-> "error", message |-> "Cannot capture frame", frame |-> None]
    ELSE LET total_visual_score == webcam.face + webcam.arms + webcam.speech
         IN  [status             |-> "success",
              webcam_analysis    |-> [face   |-> [score |-> webcam.face],
                                      arms   |-> [score |-> webcam.arms],
                                      speech |-> [score |-> webcam.speech]],
              total_visual_score |-> total_visual_score,
              urgency            |-> IF total_visual_score >= 50 THEN "IMMEDIATE"
                                     ELSE IF total_visual_score >= 25 THEN "URGENT"
                                     ELSE "MONITOR",
              timestamp          |-> t]

\* run_fast_webcam_test() of agent.py
agent_run_fast_webcam_test(t) ==
    [status      |-> "success",
     next_action |-> "Call analyze_webcam_fast_symptoms after completing visual tests",
     timestamp   |-> t]

\* not s.strip(): s holds nothing but spaces
IsBlank(s) == \A i \in 1..Len(s) : SubSeq(s, i, i) = " "

\* an exception that leaves a function: nothing is returned
Raised(e) == [raised |-> e]

\* the combined_assessment of the text triage and the visual analysis
agent_CombinedAssessment(text_urgency, visual_urgency) ==
    LET combined_urgency == IF text_urgency >= visual_urgency
                            THEN text_urgency ELSE visual_urgency
    IN  [text_urgency     |-> text_urgency,
         visual_urgency   |-> visual_urgency,
         combined_urgency |-> combined_urgency,
         recommendation   |-> IF combined_urgency >= 50 THEN "IMMEDIATE MEDICAL ATTENTION"
                              ELSE IF combined_urgency >= 25 THEN "Seek medical evaluation"
                              ELSE "Monitor symptoms"]

\* orchestrate_stroke_detection(input_text, patient_id, include_webcam) of
\* agent.py: include_webcam is FALSE, or TRUE with the camera giving webcam.
\* There is no try block: what an agent or a missing key raises leaves the
\* function.
agent_orchestrate_stroke_detection(input_text, pid, include_webcam, webcam, t) ==
    LET patient == AutoPatientId(pid, t)
        w0 == [workflow_id |-> <<"WORKFLOW", t>>,
               patient_id  |-> patient,
               timestamp   |-> t]
        analysed == ~IsBlank(input_text.v)
        symptom_results == agent_analyze_stroke_symptoms(input_text.v, patient, t)
        triaged == analysed /\ Get(symptom_results, "requires_triage", FALSE)
        triage == perform_fast_assessment(symptom_results, patient, t)
        step1 == IF analysed THEN [symptom_analysis |-> symptom_results] ELSE EmptyDict
        step2 == IF triaged THEN [triage_assessment |-> triage] ELSE EmptyDict
        step3 == IF triaged /\ Get(triage, "requires_immediate_attention", FALSE)
                 THEN [emergency_alert |->
                          agent_send_emergency_alert(patient, triage, t)]
                 ELSE EmptyDict
        step4 == IF triaged
                 THEN [care_instructions |->
                          agent_provide_immediate_care_instructions(patient, triage, t)]
                 ELSE EmptyDict
        webcam_analysis == agent_analyze_webcam_fast_symptoms(webcam, t)
        step5 == IF include_webcam
                 THEN [webcam_protocol |-> agent_run_fast_webcam_test(t),
                       webcam_analysis |-> webcam_analysis]
                      @@ (IF triaged
                          THEN [combined_assessment |->
                                   agent_CombinedAssessment(triage.urgency_score,
                                                            webcam_analysis.total_visual_score)]
                          ELSE EmptyDict)
                 ELSE EmptyDict
    IN  IF input_text.t # "str"
        THEN Raised("AttributeError: object has no attribute 'strip'")
        ELSE IF include_webcam /\ triaged
                /\ "total_visual_score" \notin DOMAIN webcam_analysis
        THEN Raised("KeyError: 'total_visual_score'")
        ELSE w0 @@ step1 @@ step2 @@ step3 @@ step4 @@ step5
-----------------------------------------------------------------------------
(* The health monitoring agent (multi_tool_agent/agent.py) and its web API *)
(* (backend/app.py).                                                       *)

\* call_emergency_services(patient_id, condition)
call_emergency_services(pid, condition, t) ==
    [emergency_id     |-> <<"EMR", t>>,
     patient_id       |-> pid,
     condition        |-> condition,
     response_time    |-> "5-8 minutes",
     dispatched_units |-> <<"Ambulance Unit 12", "Paramedic Team Alpha">>,
     status           |-> "911 CALLED - Emergency services dispatched",
     timestamp        |-> t]

\* jsonify({"status": "error", "error_message": ...}), code
ErrorResponse(code, message) ==
    [code |-> code,
     json |-> [status |-> "error", error_message |-> message],
     emergency_calls |-> <<>>]

\* variant of MissingField that rejects only a request lacking both fields
MissingField_Both(pid, condition) == ~Truthy(pid) /\ ~Truthy(condition)

\* not patient_id or not condition
MissingField(pid, condition) == ~Truthy(pid) \/ ~Truthy(condition)

\* POST /api/emergency, call_emergency(): the response, with the calls made
\* to call_emergency_services.  request.get_json() raises on a body that is
\* no JSON; data.get raises on JSON that is no object.
call_emergency(body, t) ==
    IF body.kind = "not_json"
    THEN ErrorResponse(500, "400 Bad Request: Failed to decode JSON object")
    ELSE IF body.kind # "object"
    THEN ErrorResponse(500, "object has no attribute 'get'")
    ELSE LET pid == Get(body.fields, "patient_id", None)
             condition == Get(body.fields, "condition", None)
         IN  IF MissingField(pid, condition)
             THEN ErrorResponse(400, "Missing patient_id or condition")
             ELSE [code |-> 200,
                   json |-> call_emergency_services(pid, condition, t),
                   emergency_calls |-> <<[patient_id |-> pid, condition |-> condition]>>]
\* variant of HeartSeverity whose critical limits include 50 and 150
HeartSeverity_Inclusive(heart_rate) ==
    IF heart_rate <= 50 \/ heart_rate >= 150 THEN "critical"
    ELSE IF heart_rate < 60 \/ heart_rate > 120 THEN "warning"
    ELSE "normal"

\* is_critical / is_warning of monitor_heart_rate
HeartSeverity(heart_rate) ==
    IF heart_rate < 50 \/ heart_rate > 150 THEN "critical"
    ELSE IF heart_rate < 60 \/ heart_rate > 120 THEN "warning"
    ELSE "normal"

\* is_critical / is_warning of monitor_blood_pressure
PressureSeverity(systolic, diastolic) ==
    IF systolic > 180 \/ diastolic > 110 \/ systolic < 90 THEN "critical"
    ELSE IF systolic > 140 \/ diastolic > 90 THEN "warning"
    ELSE "normal"

\* is_critical / is_warning of monitor_temperature; the temperature is in
\* tenths of a degree Fahrenheit (round(..., 1))
TemperatureSeverity(tenths_f) ==
    IF tenths_f < 950 \/ tenths_f > 1040 THEN "critical"
    ELSE IF tenths_f < 960 \/ tenths_f > 1004 THEN "warning"
    ELSE "normal"

\* round((temperature_f - 32) * 5/9, 1), in tenths of a degree Celsius
TenthsCelsius(tenths_f) == (10 * (tenths_f - 320) + 9) \div 18

\* the tail of a monitor function: the severity, the alert and the emergency
\* call it adds to its reading
Monitored(reading, pid, severity, what, t) ==
    reading
    @@ [status |-> "success", patient_id |-> pid, timestamp |-> t,
        severity |-> severity]
    @@ (IF severity = "critical"
        THEN [alert |-> <<"CRITICAL", what>>,
              emergency_response |->
                  call_emergency_services(pid, <<"Critical", what>>, t)]
        ELSE IF severity = "warning"
        THEN [alert |-> <<"WARNING", what>>]
        ELSE EmptyDict)

\* monitor_heart_rate(patient_id), random.randint giving heart_rate
monitor_heart_rate(pid, heart_rate, t) ==
    Monitored([heart_rate |-> heart_rate], pid, HeartSeverity(heart_rate),
              <<"heart rate", heart_rate>>, t)

\* monitor_blood_pressure(patient_id), random.randint giving the two values
monitor_blood_pressure(pid, systolic, diastolic, t) ==
    Monitored([blood_pressure |-> <<systolic, "/", diastolic>>,
               systolic |-> systolic, diastolic |-> diastolic],
              pid, PressureSeverity(systolic, diastolic),
              <<"blood pressure", systolic, diastolic>>, t)

\* monitor_temperature(patient_id), random.uniform giving the temperature
monitor_temperature(pid, tenths_f, t) ==
    Monitored([temperature_f |-> tenths_f, temperature_c |-> TenthsCelsius(tenths_f)],
              pid, TemperatureSeverity(tenths_f), <<"temperature", tenths_f>>, t)

\* the readings the random generators can give
HeartRates == 45..180
Systolics == 80..200
Diastolics == 50..120
Temperatures == 950..1080
\* variant of OverallSeverity in which a warning replaces whatever was found
\* before it
RECURSIVE OverallSeverity_LastWins(_)
OverallSeverity_LastWins(readings) ==
    IF readings = <<>> THEN "normal"
    ELSE LET before == OverallSeverity_LastWins(SubSeq(readings, 1, Len(readings) - 1))
             data == readings[Len(readings)]
         IN  IF data.severity = "critical" THEN "critical"
             ELSE IF data.severity = "warning" THEN "warning"
             ELSE before

\* the loop of get_patient_status over the readings: overall_severity
RECURSIVE OverallSeverity(_)
OverallSeverity(readings) ==
    IF readings = <<>> THEN "normal"
    ELSE LET before == OverallSeverity(SubSeq(readings, 1, Len(readings) - 1))
             data == readings[Len(readings)]
         IN  IF data.severity = "critical" THEN "critical"
             ELSE IF data.severity = "warning" /\ before = "normal" THEN "warning"
             ELSE before

\* the loop of get_patient_status over the readings: the list of data[key]
\* of the readings that have the key
RECURSIVE Collected(_, _)
Collected(readings, key) ==
    IF readings = <<>> THEN <<>>
    ELSE (IF key \in DOMAIN Head(readings) THEN <<Head(readings)[key]>> ELSE <<>>)
         \o Collected(Tail(readings), key)

\* get_patient_status(patient_id), the generators giving the four values
get_patient_status(pid, heart_rate, systolic, diastolic, tenths_f, t) ==
    LET heart_rate_data == monitor_heart_rate(pid, heart_rate, t)
        bp_data == monitor_blood_pressure(pid, systolic, diastolic, t)
        temp_data == monitor_temperature(pid, tenths_f, t)
        readings == <<heart_rate_data, bp_data, temp_data>>
    IN  [status              |-> "success",
         patient_id          |-> pid,
         overall_severity    |-> OverallSeverity(readings),
         heart_rate          |-> heart_rate_data,
         blood_pressure      |-> bp_data,
         temperature         |-> temp_data,
         alerts              |-> Collected(readings, "alert"),
         emergency_responses |-> Collected(readings, "emergency_response"),
         timestamp           |-> t]

\* GET /api/patients/<id>/alerts, get_patient_alerts(): the body of the answer
get_patient_alerts(pid, heart_rate, systolic, diastolic, tenths_f, t) ==
    LET status == get_patient_status(pid, heart_rate, systolic, diastolic, tenths_f, t)
    IN  [patient_id          |-> pid,
         alerts              |-> Get(status, "alerts", <<>>),
         emergency_responses |-> Get(status, "emergency_responses", <<>>),
         overall_severity    |-> Get(status, "overall_severity", "normal"),
         timestamp           |-> t]
-----------------------------------------------------------------------------
(* Inputs.                                                                 *)

\* the payloads handed to orchestrate_stroke_detection
InputDatas ==
    [i \in 1..Len(Texts) |-> [text |-> PyStr(Texts[i])]]
    \o [i \in 1..Len(Texts) |-> [voice_text |-> PyStr(Texts[i]), input_type |-> "voice"]]
    \o << [text |-> PyStr(Texts[5]), input_type |-> "text",
           location |-> [address |-> "5 Oak Ave"]],
          [text |-> PyStr(""), voice_text |-> PyStr(VoiceOnlyText)],
          [text |-> PyInt(7)],
          [text |-> None],
          [voice_text |-> None, input_type |-> "voice"],
          EmptyDict,
          None >>

\* the payloads of a batch
BatchPayloads ==
    << [text |-> PyStr(Texts[2])],
       [text |-> PyStr(Texts[4])],
       [text |-> PyStr(Texts[6])],
       [text |-> PyInt(7)] >>

PatientId(i) == "P" \o ToString(i)

\* the lists handed to process_batch_assessments: patient i is "P<i>"
BatchInputs ==
    UNION {[1..n -> 1..Len(BatchPayloads)] : n \in 0..MaxPatients}

BatchList(choice) ==
    [i \in DOMAIN choice |-> [patient_id |-> PatientId(i)] @@ BatchPayloads[choice[i]]]

\* the triage records handed to prioritize_patient_queue (one has no score)
QueuePatients ==
    << [urgency_score |-> 20, triage_level |-> "SEMI-URGENT",
        estimated_response_time |-> "30-60 minutes"],
       [urgency_score |-> 55, triage_level |-> "URGENT",
        estimated_response_time |-> "5-15 minutes"],
       [urgency_score |-> 90, triage_level |-> "IMMEDIATE",
        estimated_response_time |-> "0-5 minutes"],
       [triage_level |-> "UNKNOWN"] >>

QueueInputs ==
    UNION {[1..n -> 1..Len(QueuePatients)] : n \in 0..MaxQueue}

QueueList(choice) ==
    [i \in DOMAIN choice |-> [patient_id |-> PatientId(i)] @@ QueuePatients[choice[i]]]

\* symptom evidence handed to perform_fast_assessment: the first f, a, s, o
\* indicators of each category, and a record without detected_symptoms
Evidence(f, a, s, o) ==
    [detected_symptoms |->
        [face   |-> SubSeq(face_symptoms, 1, f),
         arm    |-> SubSeq(arm_symptoms, 1, a),
         speech |-> SubSeq(speech_symptoms, 1, s),
         other  |-> SubSeq(other_stroke_symptoms, 1, o)]]

NoEvidence == [status |-> "success"]

NotCalled == [t |-> "not called"]

-----------------------------------------------------------------------------
(* orchestrate_stroke_detection, step by step.                             *)

Running == {"step1", "step2", "step3", "step4", "step5"}

IdleBatch ==
    /\ phase = "idle"
    /\ patient_assessments = <<>>
    /\ batch_results = NotCalled
    /\ patients = <<>>
    /\ queue_result = NotCalled

IdleTriage ==
    /\ symptom_data = NoEvidence
    /\ fast_result = NotCalled
    /\ band_score = 0
    /\ band_result = NotCalled

IdleAgents ==
    /\ call = "none"
    /\ args = <<>>
    /\ ret = NotCalled

IdleWorkflow ==
    /\ pc = "idle"
    /\ now = 0
    /\ patient_id = "P1"
    /\ input_data = EmptyDict
    /\ workflow_results = EmptyDict
    /\ triage_results = EmptyDict
    /\ start_time = 0

\* the state on entering the try block
Init ==
    /\ \E i \in 1..Len(InputDatas) : input_data = InputDatas[i]
    /\ patient_id = "P1"
    /\ now = 0
    /\ start_time = 0
    /\ workflow_results = InitialRecord("P1", 0)
    /\ triage_results = EmptyDict
    /\ pc = "step1"
    /\ IdleBatch
    /\ IdleAgents
    /\ IdleTriage

\* the three clock reads of a step: its start, its end, its duration
Reads(t1, t2, t3) ==
    /\ t1 \in now..(now + MaxTick)
    /\ t2 \in t1..(t1 + MaxTick)
    /\ t3 \in t2..(t2 + MaxTick)
    /\ t3 <= MaxClock

SymptomAnalysis ==
    /\ pc = "step1"
    /\ ~SymptomStepRaises(input_data)
    /\ \E t1, t2, t3 \in 0..MaxClock :
        /\ Reads(t1, t2, t3)
        /\ workflow_results' =
               SymptomStep(workflow_results, patient_id, input_data, t1, t2, t3)
        /\ now' = t3
    /\ pc' = AfterSymptoms(workflow_results'.results.symptom_analysis)
    /\ UNCHANGED <<patient_id, input_data, triage_results, start_time>>
    /\ UNCHANGED <<batchVars, triageVars, agentVars>>

TriageAssessment ==
    /\ pc = "step2"
    /\ \E t1, t2, t3 \in 0..MaxClock :
        /\ Reads(t1, t2, t3)
        /\ workflow_results' = TriageStep(workflow_results, patient_id, t1, t2, t3)
        /\ now' = t3
    /\ triage_results' = workflow_results'.results.triage_assessment
    /\ pc' = AfterTriage(triage_results')
    /\ UNCHANGED <<patient_id, input_data, start_time>>
    /\ UNCHANGED <<batchVars, triageVars, agentVars>>

EmergencyAlert ==
    /\ pc = "step3"
    /\ \E t1, t2, t3 \in 0..MaxClock :
        /\ Reads(t1, t2, t3)
        /\ workflow_results' = AlertStep(workflow_results, patient_id, input_data,
                                         triage_results, t1, t2, t3)
        /\ now' = t3
    /\ pc' = "step4"
    /\ UNCHANGED <<patient_id, input_data, triage_results, start_time>>
    /\ UNCHANGED <<batchVars, triageVars, agentVars>>

CareInstructions ==
    /\ pc = "step4"
    /\ \E t1, t2, t3 \in 0..MaxClock :
        /\ Reads(t1, t2, t3)
        /\ workflow_results' = CareStep(workflow_results, patient_id,
                                        triage_results, t1, t2, t3)
        /\ now' = t3
    /\ pc' = "step5"
    /\ UNCHANGED <<patient_id, input_data, triage_results, start_time>>
    /\ UNCHANGED <<batchVars, triageVars, agentVars>>

EventLogging ==
    /\ pc = "step5"
    /\ \E t1, t2, t3 \in 0..MaxClock :
        /\ Reads(t1, t2, t3)
        /\ workflow_results' = LoggingStep(workflow_results, patient_id, t1, t2, t3)
        /\ now' = t3
    /\ pc' = "complete"
    /\ UNCHANGED <<patient_id, input_data, triage_results, start_time>>
    /\ UNCHANGED <<batchVars, triageVars, agentVars>>

\* "Complete workflow" and "Generate summary", then return
Complete ==
    /\ pc = "complete"
    /\ \E t \in now..Min(now + MaxTick, MaxClock) :
        /\ workflow_results' = Summarize(Finish(workflow_results, start_time, t))
        /\ now' = t
    /\ pc' = "returned"
    /\ UNCHANGED <<patient_id, input_data, triage_results, start_time>>
    /\ UNCHANGED <<batchVars, triageVars, agentVars>>

\* an agent of the current step raises (step 1 also on a text that is no
\* str): the except clause runs, then return
StageFault ==
    /\ pc \in Running
    /\ \E t \in now..Min(now + MaxTick, MaxClock) :
        /\ workflow_results' =
               HandleException(workflow_results,
                               IF pc = "step1" /\ SymptomStepRaises(input_data)
                               THEN SymptomStepError(input_data)
                               ELSE FaultText(pc), t)
        /\ now' = t
    /\ pc' = "returned"
    /\ UNCHANGED <<patient_id, input_data, triage_results, start_time>>
    /\ UNCHANGED <<batchVars, triageVars, agentVars>>

\* generate_workflow_summary raises, after end_time, the total duration and
\* the status were set: the except clause runs, then return
SummaryFault ==
    /\ pc = "complete"
    /\ \E t \in now..Min(now + MaxTick, MaxClock) :
        /\ workflow_results' =
               HandleException(Finish(workflow_results, start_time, t),
                               FaultText("summary"), t)
        /\ now' = t
    /\ pc' = "returned"
    /\ UNCHANGED <<patient_id, input_data, triage_results, start_time>>
    /\ UNCHANGED <<batchVars, triageVars, agentVars>>

Next ==
    \/ SymptomAnalysis
    \/ TriageAssessment
    \/ EmergencyAlert
    \/ CareInstructions
    \/ EventLogging
    \/ Complete
    \/ StageFault
    \/ SummaryFault

Spec == Init /\ [][Next]_vars

\* the call runs to its return: the coordinator is sequential code
FairSpec == Spec /\ WF_vars(Next)

-----------------------------------------------------------------------------
(* process_batch_assessments and prioritize_patient_queue, one call each.  *)

InitBatch ==
    /\ IdleWorkflow
    /\ IdleBatch
    /\ IdleAgents
    /\ IdleTriage

\* a call of process_batch_assessments: each patient's workflow may meet a
\* fault of its own
ProcessBatch ==
    /\ phase = "idle"
    /\ \E choice \in BatchInputs :
       \E faults \in [DOMAIN choice -> BatchFaultPoints] :
       \E tick \in {0, MaxTick} :
        /\ patient_assessments' = [i \in DOMAIN choice |->
                                      [payload |-> BatchList(choice)[i], fault |-> faults[i]]]
        /\ batch_results' = process_batch_assessments(BatchList(choice), faults, 0, tick)
    /\ phase' = "batch returned"
    /\ UNCHANGED <<patients, queue_result>>
    /\ UNCHANGED <<wfVars, triageVars, agentVars>>

\* a call of prioritize_patient_queue
PrioritizeQueue ==
    /\ phase = "idle"
    /\ \E choice \in QueueInputs :
        /\ patients' = QueueList(choice)
        /\ queue_result' = prioritize_patient_queue(QueueList(choice), 0)
    /\ phase' = "queue returned"
    /\ UNCHANGED <<patient_assessments, batch_results>>
    /\ UNCHANGED <<wfVars, triageVars, agentVars>>

NextBatch ==
    \/ ProcessBatch
    \/ PrioritizeQueue

SpecBatch == InitBatch /\ [][NextBatch]_vars

-----------------------------------------------------------------------------
(* perform_fast_assessment on every symptom evidence.                      *)

InitTriage ==
    /\ IdleWorkflow
    /\ IdleBatch
    /\ IdleAgents
    /\ symptom_data \in
           {Evidence(f, a, s, o) : f, a, s \in 0..MaxFastMatches, o \in 0..MaxOtherMatches}
           \cup {NoEvidence}
    /\ fast_result = NotCalled
    /\ band_score = 0
    /\ band_result = NotCalled

FastAssessment ==
    /\ fast_result = NotCalled
    /\ fast_result' = perform_fast_assessment(symptom_data, "P1", 0)
    /\ UNCHANGED <<symptom_data, band_score, band_result>>
    /\ UNCHANGED <<wfVars, batchVars, agentVars>>

NextTriage == FastAssessment

SpecTriage == InitTriage /\ [][NextTriage]_vars

-----------------------------------------------------------------------------
(* The triage-level scan of perform_fast_assessment on every score.        *)

InitBand ==
    /\ IdleWorkflow
    /\ IdleBatch
    /\ IdleAgents
    /\ symptom_data = NoEvidence
    /\ fast_result = NotCalled
    /\ band_score \in 0..100
    /\ band_result = NotCalled

DetermineTriageLevel ==
    /\ band_result = NotCalled
    /\ band_result' = TriageLevel(band_score)
    /\ UNCHANGED <<symptom_data, fast_result, band_score>>
    /\ UNCHANGED <<wfVars, batchVars, agentVars>>

NextBand == DetermineTriageLevel

SpecBand == InitBand /\ [][NextBand]_vars

-----------------------------------------------------------------------------
(* The agents' functions, each called on its own.                          *)

InitAgents ==
    /\ IdleWorkflow
    /\ IdleBatch
    /\ IdleTriage
    /\ IdleAgents

\* the frame of an action of this section: a function is called once
Called(name, arguments, returned) ==
    /\ call = "none"
    /\ call' = name
    /\ args' = arguments
    /\ ret' = returned
    /\ UNCHANGED <<wfVars, batchVars, triageVars>>

\* analyze_stroke_symptoms of the symptom agent and of agent.py
AnalyzeSymptoms ==
    \E text \in Utterances :
        \/ Called("symptom_agent.analyze_stroke_symptoms",
                  [input_text |-> text, patient_id |-> "P1"],
                  analyze_stroke_symptoms(text, "P1", 0))
        \/ \E pid \in {PyStr("P1"), None} :
              Called("agent.analyze_stroke_symptoms",
                     [input_text |-> text, patient_id |-> pid],
                     agent_analyze_stroke_symptoms(text, pid, 0))

\* the triage results handed to send_emergency_alert: every score, and one
\* record without a score
TriageDatas ==
    {[urgency_score |-> u,
      triage_level |-> TriageLevel(u).triage_level,
      estimated_response_time |-> TriageLevel(u).estimated_response_time] : u \in 0..100}
    \cup {[status |-> "success"]}

\* send_emergency_alert of the alert agent and of agent.py
SendAlert ==
    \E triage \in TriageDatas :
        \/ Called("alert_agent.send_emergency_alert",
                  [patient_id |-> "P1", triage_data |-> triage],
                  send_emergency_alert("P1", triage, 0))
        \/ Called("agent.send_emergency_alert",
                  [patient_id |-> "P1", triage_data |-> triage],
                  agent_send_emergency_alert("P1", triage, 0))
\* the assessments handed to provide_immediate_care_instructions: the three
\* flags and the score vary independently; one record has no flags
StrokeAssessments ==
    {[fast_assessment |-> [face |-> f, arms |-> a, speech |-> s, time |-> 0],
      urgency_score |-> u,
      triage_level |-> TriageLevel(u).triage_level] :
        f, a, s \in BOOLEAN, u \in {0, 30, 60, 69, 70, 100}}
    \cup {[urgency_score |-> 90, triage_level |-> "IMMEDIATE"]}

\* provide_immediate_care_instructions of the care agent and of agent.py
CareFor ==
    \E assessment \in StrokeAssessments :
        \/ Called("care_agent.provide_immediate_care_instructions",
                  [patient_id |-> "P1", stroke_assessment |-> assessment],
                  provide_immediate_care_instructions("P1", assessment, 0))
        \/ Called("agent.provide_immediate_care_instructions",
                  [patient_id |-> "P1", stroke_assessment |-> assessment],
                  agent_provide_immediate_care_instructions("P1", assessment, 0))
\* the values a timestamp of event_data takes: None, the empty string, a
\* string that is no ISO timestamp, and the four ISO timestamps
TimeValues ==
    {None, PyStr(""), PyStr("yesterday")} \cup {PyStr(s) : s \in DOMAIN IsoMinutes}

\* event_data with each of the two timestamps absent or present
EventDatas ==
    {(IF hasOnset THEN [symptom_onset_time |-> onset] ELSE EmptyDict)
     @@ (IF hasArrival THEN [hospital_arrival_time |-> arrival] ELSE EmptyDict)
     @@ [urgency_level |-> PyStr("URGENT")] :
        hasOnset, hasArrival \in BOOLEAN, onset, arrival \in TimeValues}

\* log_stroke_event of the follow-up agent
LogEvent ==
    \E event_data \in EventDatas :
        Called("followup_agent.log_stroke_event",
               [patient_id |-> "P1", event_data |-> event_data],
               log_stroke_event("P1", event_data, 0))
\* the patient_data handed to calculate_stroke_risk_score: with a
\* symptom_analysis (with or without a fast_score) or without one, with any
\* severity or none, with or without an urgency_score
PatientDatas ==
    {analysis @@ severity @@ urgency :
        analysis \in {[symptom_analysis |-> [fast_score |-> n]] :
                          n \in 0..MaxRiskFastScore}
                     \cup {[symptom_analysis |-> [status |-> "success"]], EmptyDict},
        severity \in {[severity |-> s] : s \in {"critical", "warning", "normal", "unknown"}}
                     \cup {EmptyDict},
        urgency  \in {[urgency_score |-> u] : u \in {0, 100}} \cup {EmptyDict}}

\* calculate_stroke_risk_score of the triage agent
RiskScore ==
    \E patient_data \in PatientDatas :
        Called("triage_agent.calculate_stroke_risk_score",
               [patient_data |-> patient_data],
               calculate_stroke_risk_score(patient_data, 0))
\* the coordinator's orchestrate_stroke_detection as one call, an agent of
\* step fault raising (0: none does)
OrchestrateCoordinator ==
    \E i \in 1..Len(InputDatas), fault \in FaultPoints :
        Called("coordinator.orchestrate_stroke_detection",
               [patient_id |-> "P1", input_data |-> InputDatas[i], fault |-> fault],
               orchestrate_stroke_detection("P1", InputDatas[i], fault, 0, 1))

\* the input_text handed to the orchestrator of agent.py: the texts, a blank
\* one, and None
AgentInputTexts ==
    {PyStr(Texts[i]) : i \in 1..Len(Texts)} \cup {PyStr("   "), None}

\* orchestrate_stroke_detection of agent.py, without the webcam and with it
OrchestrateAgent ==
    \E input_text \in AgentInputTexts, pid \in {PyStr("P1"), None} :
        \/ Called("agent.orchestrate_stroke_detection",
                  [input_text |-> input_text, patient_id |-> pid,
                   include_webcam |-> FALSE],
                  agent_orchestrate_stroke_detection(input_text, pid, FALSE,
                                                     [status |-> "error"], 0))
        \/ \E webcam \in Webcams :
            Called("agent.orchestrate_stroke_detection",
                   [input_text |-> input_text, patient_id |-> pid,
                    include_webcam |-> TRUE, webcam |-> webcam],
                   agent_orchestrate_stroke_detection(input_text, pid, TRUE, webcam, 0))
\* the coordinator's orchestrate_stroke_detection on the reports: every
\* combination of FAST categories with every number of other symptoms
OrchestrateReport ==
    \E text \in Reports :
        Called("coordinator.orchestrate_stroke_detection",
               [patient_id |-> "P1", input_data |-> [text |-> PyStr(text)], fault |-> 0],
               orchestrate_stroke_detection("P1", [text |-> PyStr(text)], 0, 0, 1))
NextAgents ==
    \/ AnalyzeSymptoms
    \/ SendAlert
    \/ CareFor
    \/ LogEvent
    \/ RiskScore
    \/ OrchestrateCoordinator
    \/ OrchestrateAgent
    \/ OrchestrateReport

SpecAgents == InitAgents /\ [][NextAgents]_vars

-----------------------------------------------------------------------------
(* The health monitoring agent and its web API, one request at a time.     *)

InitHealth ==
    /\ IdleWorkflow
    /\ IdleBatch
    /\ IdleTriage
    /\ IdleAgents

\* the values a field of the request body takes
FieldValues ==
    {None, PyStr(""), PyStr("patient-001"), PyStr("chest pain"),
     PyInt(0), PyInt(7), PyBool(FALSE)}

\* the bodies posted to /api/emergency: no JSON at all, JSON that is no
\* object (null, a string, a list), and objects with each field absent or
\* present with one of the values
Bodies ==
    {[kind |-> "not_json"], [kind |-> "null"], [kind |-> "string"], [kind |-> "list"]}
    \cup {[kind |-> "object", fields |-> p @@ c @@ [note |-> PyStr("x")]] :
            p \in {[patient_id |-> v] : v \in FieldValues} \cup {EmptyDict},
            c \in {[condition |-> v] : v \in FieldValues} \cup {EmptyDict}}

\* POST /api/emergency
CallEmergency ==
    \E body \in Bodies :
        Called("app.call_emergency", [body |-> body], call_emergency(body, 0))

\* GET /api/patients/<id>/heart-rate: monitor_heart_rate
MonitorHeartRate ==
    \E heart_rate \in HeartRates :
        Called("agent.monitor_heart_rate", [heart_rate |-> heart_rate],
               monitor_heart_rate("patient-001", heart_rate, 0))

\* GET /api/patients/<id>/blood-pressure: monitor_blood_pressure
MonitorBloodPressure ==
    \E systolic \in Systolics, diastolic \in Diastolics :
        Called("agent.monitor_blood_pressure",
               [systolic |-> systolic, diastolic |-> diastolic],
               monitor_blood_pressure("patient-001", systolic, diastolic, 0))

\* GET /api/patients/<id>/temperature: monitor_temperature
MonitorTemperature ==
    \E tenths_f \in Temperatures :
        Called("agent.monitor_temperature", [temperature_f |-> tenths_f],
               monitor_temperature("patient-001", tenths_f, 0))
\* the vital signs drawn for a full status: values on both sides of every
\* threshold
StatusVitals ==
    {[heart_rate |-> h, systolic |-> s, diastolic |-> d, temperature_f |-> f] :
        h \in {49, 50, 59, 60, 120, 121, 150, 151},
        s \in {89, 90, 140, 141, 180, 181},
        d \in {90, 91, 110, 111},
        f \in {950, 959, 960, 1004, 1005, 1040, 1041}}

\* GET /api/patients/<id>/status: get_patient_status
GetPatientStatus ==
    \E v \in StatusVitals :
        Called("agent.get_patient_status", v,
               get_patient_status("patient-001", v.heart_rate, v.systolic,
                                  v.diastolic, v.temperature_f, 0))

\* GET /api/patients/<id>/alerts: get_patient_alerts
GetPatientAlerts ==
    \E v \in StatusVitals :
        Called("app.get_patient_alerts", v,
               get_patient_alerts("patient-001", v.heart_rate, v.systolic,
                                  v.diastolic, v.temperature_f, 0))
NextHealth ==
    \/ CallEmergency
    \/ MonitorHeartRate
    \/ MonitorBloodPressure
    \/ MonitorTemperature
    \/ GetPatientStatus
    \/ GetPatientAlerts

SpecHealth == InitHealth /\ [][NextHealth]_vars

-----------------------------------------------------------------------------
(* Properties of orchestrate_stroke_detection.                             *)

Results == workflow_results.results
Status == workflow_results.status
Executed(agent) ==
    \E i \in 1..Len(workflow_results.agents_executed) :
        workflow_results.agents_executed[i] = agent
Recorded(key) == key \in DOMAIN Results

\* the analysis analyze_stroke_symptoms produced in step 1 (process_voice_input
\* returns it under the key symptom_analysis of its own result)
TheSymptomAnalysis ==
    IF "symptom_analysis" \in DOMAIN Results.symptom_analysis
    THEN Results.symptom_analysis.symptom_analysis
    ELSE Results.symptom_analysis

\* the coordinator has just left step 1
JustAnalyzed ==
    /\ pc \in {"step2", "step5"}
    /\ workflow_results.agents_executed = <<"symptom_agent">>

\* C1: the triage stage runs if and only if the symptom analysis has
\* requires_triage = true (fast_score >= 3); when it is false the workflow
\* goes from the symptom analysis directly to event logging, where results
\* holds only symptom_analysis.
C1_TriageIffRequiresTriage ==
    /\ JustAnalyzed =>
          ((pc = "step2") <=> (TheSymptomAnalysis.requires_triage
                               /\ TheSymptomAnalysis.fast_score >= 3))
    /\ (JustAnalyzed /\ ~TheSymptomAnalysis.requires_triage) =>
          (pc = "step5" /\ DOMAIN Results = {"symptom_analysis"})
    /\ Status = "completed" =>
          (Recorded("triage_assessment") <=> TheSymptomAnalysis.requires_triage)

\* the alert test of the coordinator, on the recorded triage result
Urgent(triage) ==
    triage.requires_immediate_attention \/ triage.urgency_score >= 40

\* C2: the emergency-alert stage runs if and only if triage ran and the
\* triage result has requires_immediate_attention or urgency_score >= 40; a
\* triaged patient with urgency_score < 40 gets no emergency_alert and no
\* response_coordination.
C2_AlertIffUrgent ==
    /\ (pc = "step3" \/ Recorded("emergency_alert") \/ Recorded("response_coordination")
        \/ Executed("alert_agent"))
          => (Recorded("triage_assessment") /\ Urgent(Results.triage_assessment))
    /\ (Recorded("triage_assessment") /\ Results.triage_assessment.urgency_score < 40)
          => (~Recorded("emergency_alert") /\ ~Recorded("response_coordination")
              /\ pc # "step3")
    /\ (Recorded("triage_assessment") /\ Urgent(Results.triage_assessment)
        /\ (pc \in {"step4", "step5", "complete"} \/ Status = "completed"))
          => (Recorded("emergency_alert") /\ Recorded("response_coordination")
              /\ Executed("alert_agent"))
    /\ (pc \in {"step3", "step4"} /\ ~Recorded("emergency_alert")
        /\ Recorded("triage_assessment"))
          => ((pc = "step3") <=> Urgent(Results.triage_assessment))

C2_Witness ==
    /\ Status = "completed"
    /\ Recorded("emergency_alert")
    /\ Results.triage_assessment.urgency_score = 60
    /\ ~Results.triage_assessment.requires_immediate_attention

\* C3: in a fault-free run the care-instruction stage runs exactly when the
\* triage stage ran, whether or not the alert stage ran.
C3_CareIffTriage ==
    /\ (Recorded("care_instructions") \/ Executed("care_agent") \/ pc = "step4")
          => Recorded("triage_assessment")
    /\ Status = "completed" =>
          /\ Recorded("care_instructions") <=> Recorded("triage_assessment")
          /\ Executed("care_agent") <=> Executed("triage_agent")

\* care given to a triaged patient for whom no alert was sent
C3_Witness ==
    /\ Status = "completed"
    /\ Recorded("triage_assessment")
    /\ ~Recorded("emergency_alert")
    /\ Recorded("care_instructions")

\* what the caller receives
Returned == pc = "returned"

\* C4: the call always returns a record, whose status is "completed" or
\* "error" and never "in_progress"; when it is "completed" the event-logging
\* stage was executed and event_log is in results.
C4_ReturnsCompletedOrError ==
    /\ <>Returned
    /\ [](Returned =>
            /\ Status \in {"completed", "error"}
            /\ Status = "completed" =>
                  (Executed("followup_agent") /\ Recorded("event_log")))

\* a record returned for a text that is no str
C4_Witness ==
    /\ Returned
    /\ Status = "error"
    /\ input_data = [text |-> PyInt(7)]

\* C5: a fault moves the workflow directly to the error state: status is
\* "error", the fault is described in error, end_time is set, the results,
\* the timeline and the executed agents recorded before are unchanged, and no
\* stage runs afterwards.
C5_FaultKeepsResults ==
    [][ /\ Status # "error"
        /\ (workflow_results'.status = "error" \/ (pc \in Running /\ pc' = "returned"))
              => /\ workflow_results'.status = "error"
                 /\ "error" \in DOMAIN workflow_results'
                 /\ "end_time" \in DOMAIN workflow_results'
                 /\ workflow_results'.results = workflow_results.results
                 /\ workflow_results'.timeline = workflow_results.timeline
                 /\ workflow_results'.agents_executed = workflow_results.agents_executed
                 /\ pc' = "returned" ]_vars

\* a fault in the care step: the triage and alert results are kept
C5_Witness ==
    /\ Returned
    /\ Status = "error"
    /\ DOMAIN Results = {"symptom_analysis", "triage_assessment", "risk_assessment",
                         "emergency_alert", "response_coordination"}
    /\ DOMAIN workflow_results.timeline =
           {"symptom_analysis", "triage_assessment", "emergency_alert"}

\* C6 as stated: the returned record has status, end_time, the total
\* duration and the summary, on completion and after a stage fault alike.
C6_FinalizedWithAllFour ==
    Returned =>
        {"status", "end_time", "total_duration_seconds", "summary"}
            \subseteq DOMAIN workflow_results

\* C6: a completed workflow is finalized with status, end_time, total
\* duration and summary; a workflow stopped by a stage fault is finalized
\* with status "error", error and end_time only, it has neither
\* total_duration_seconds nor summary (a fault of the summary itself leaves
\* the total duration, already recorded, and no summary).
C6_FinalizedOnCompletionOnly ==
    Returned =>
        /\ {"status", "end_time"} \subseteq DOMAIN workflow_results
        /\ Status = "completed" =>
              {"total_duration_seconds", "summary"} \subseteq DOMAIN workflow_results
        /\ Status = "error" =>
              /\ "error" \in DOMAIN workflow_results
              /\ "summary" \notin DOMAIN workflow_results
              /\ ("total_duration_seconds" \in DOMAIN workflow_results)
                     <=> Recorded("event_log")

\* a workflow stopped by a fault of its triage step
C6_Witness ==
    /\ Returned
    /\ Status = "error"
    /\ DOMAIN Results = {"symptom_analysis"}
    /\ TheSymptomAnalysis.requires_triage
    /\ "total_duration_seconds" \notin DOMAIN workflow_results

-----------------------------------------------------------------------------
(* Properties of the priority queues and of the batch.                     *)

\* the sort key both queues use
UrgencyKey(e) == Get(e, "urgency_score", 0)

\* queue is the list input reordered by decreasing urgency score, entries of
\* equal score in their input order, each with its 1-based position as rank
IsPriorityQueueOf(queue, input) ==
    /\ Len(queue) = Len(input)
    /\ \A i \in 1..Len(queue) : queue[i].priority_rank = i
    /\ \A i, j \in 1..Len(queue) :
          i < j => queue[i].urgency_score >= queue[j].urgency_score
    /\ \E p \in [1..Len(input) -> 1..Len(input)] :
          /\ \A i, j \in 1..Len(input) : i # j => p[i] # p[j]
          /\ \A i \in 1..Len(input) :
                /\ queue[i].patient_id = input[p[i]].patient_id
                /\ queue[i].urgency_score = UrgencyKey(input[p[i]])
          /\ \A i, j \in 1..Len(input) :
                (i < j /\ queue[i].urgency_score = queue[j].urgency_score)
                    => p[i] < p[j]

\* the urgency scores of a list, in order
ScoresOf(list) == [i \in 1..Len(list) |-> UrgencyKey(list[i])]

\* C7: the priority queue built by process_batch_assessments and by
\* prioritize_patient_queue is a permutation of the input sorted by urgency
\* score in descending order, stable for equal scores, with priority_rank the
\* 1-based position; scores [20, 90, 55] come out as [90, 55, 20].
C7_QueueSortedStableRanked ==
    /\ phase = "batch returned" =>
          IsPriorityQueueOf(batch_results.priority_queue,
                            batch_results.processed_patients)
    /\ phase = "queue returned" =>
          /\ IsPriorityQueueOf(queue_result.priority_queue, patients)
          /\ ScoresOf(patients) = <<20, 90, 55>>
                => ScoresOf(queue_result.priority_queue) = <<90, 55, 20>>

\* the example of the claim, ranked
C7_Witness ==
    /\ phase = "queue returned"
    /\ ScoresOf(patients) = <<20, 90, 55>>
    /\ [i \in 1..3 |-> queue_result.priority_queue[i].patient_id] = <<"P2", "P3", "P1">>

\* the workflow of patient i of the batch ended in the except clause for sure
MustFail(i) ==
    \/ SymptomStepRaises(patient_assessments[i].payload)
    \/ patient_assessments[i].fault = 1

\* C8: in a batch every input patient appears exactly once in
\* processed_patients and in priority_queue; a patient whose workflow faults
\* is reported with status "error" and the patients after it are processed.
C8_BatchFaultIsolation ==
    phase = "batch returned" =>
        LET n == Len(patient_assessments)
            processed == batch_results.processed_patients
            queue == batch_results.priority_queue
        IN  /\ batch_results.total_patients = n
            /\ Len(processed) = n
            /\ Len(queue) = n
            /\ \A i \in 1..n :
                  /\ processed[i].patient_id = patient_assessments[i].payload.patient_id
                  /\ processed[i].status \in {"completed", "error"}
                  /\ MustFail(i) => processed[i].status = "error"
                  /\ (~MustFail(i) /\ patient_assessments[i].fault = 0)
                        => processed[i].status = "completed"
                  /\ Cardinality({j \in 1..n :
                        queue[j].patient_id = processed[i].patient_id}) = 1

\* the first patient's workflow faulted, the second one was triaged
C8_Witness ==
    /\ phase = "batch returned"
    /\ Len(patient_assessments) = 2
    /\ patient_assessments[1].fault = 1
    /\ batch_results.processed_patients[1].status = "error"
    /\ batch_results.processed_patients[2].status = "completed"
    /\ batch_results.processed_patients[2].urgency_score = 90

-----------------------------------------------------------------------------
(* Properties of perform_fast_assessment.                                  *)

\* 1 if the category has a match in the evidence, else 0
Positive(category) ==
    IF /\ "detected_symptoms" \in DOMAIN symptom_data
       /\ category \in DOMAIN symptom_data.detected_symptoms
       /\ Len(symptom_data.detected_symptoms[category]) > 0
    THEN 1 ELSE 0

\* the number of "other" matches in the evidence
OtherCount ==
    IF /\ "detected_symptoms" \in DOMAIN symptom_data
       /\ "other" \in DOMAIN symptom_data.detected_symptoms
    THEN Len(symptom_data.detected_symptoms.other) ELSE 0

\* C9: perform_fast_assessment returns urgency_score = 30 for face + 30 for
\* arm + 30 for speech + min(10, 2 * number of other matches), a value of
\* 0..100.
C9_UrgencyScoreFormula ==
    fast_result # NotCalled =>
        /\ fast_result.urgency_score =
               30 * Positive("face") + 30 * Positive("arm") + 30 * Positive("speech")
               + (IF 2 * OtherCount < 10 THEN 2 * OtherCount ELSE 10)
        /\ fast_result.urgency_score \in 0..100

\* all three categories and six other matches: 90 + min(10, 12)
C9_Witness ==
    /\ fast_result # NotCalled
    /\ Positive("face") + Positive("arm") + Positive("speech") = 3
    /\ OtherCount = 6
    /\ fast_result.urgency_score = 100

\* the level and colour of band_result
Band == <<band_result.triage_level, band_result.triage_color>>

\* C10: urgency >= 70 is IMMEDIATE/RED, >= 40 is URGENT/YELLOW, >= 20 is
\* SEMI-URGENT/GREEN, anything lower is NON-URGENT/BLUE; in particular 70, 69,
\* 40, 39, 20 and 19 fall in RED, YELLOW, YELLOW, GREEN, GREEN and BLUE.
C10_TriageBands ==
    band_result # NotCalled =>
        /\ band_score \in 70..100 => Band = <<"IMMEDIATE", "RED">>
        /\ band_score \in 40..69  => Band = <<"URGENT", "YELLOW">>
        /\ band_score \in 20..39  => Band = <<"SEMI-URGENT", "GREEN">>
        /\ band_score \in 0..19   => Band = <<"NON-URGENT", "BLUE">>
        /\ band_score = 70 => band_result.triage_color = "RED"
        /\ band_score = 69 => band_result.triage_color = "YELLOW"
        /\ band_score = 40 => band_result.triage_color = "YELLOW"
        /\ band_score = 39 => band_result.triage_color = "GREEN"
        /\ band_score = 20 => band_result.triage_color = "GREEN"
        /\ band_score = 19 => band_result.triage_color = "BLUE"

\* the score just below the first threshold
C10_Witness ==
    /\ band_result # NotCalled
    /\ band_score = 69
    /\ Band = <<"URGENT", "YELLOW">>

\* C11: in every triage result requires_immediate_attention holds iff
\* urgency_score >= 70 and requires_emergency_transport holds iff
\* urgency_score >= 40; immediate attention implies emergency transport, and
\* triage_level is IMMEDIATE iff requires_immediate_attention.
C11_TriageFlags ==
    fast_result # NotCalled =>
        /\ fast_result.requires_immediate_attention <=> fast_result.urgency_score >= 70
        /\ fast_result.requires_emergency_transport <=> fast_result.urgency_score >= 40
        /\ fast_result.requires_immediate_attention
              => fast_result.requires_emergency_transport
        /\ (fast_result.triage_level = "IMMEDIATE")
              <=> fast_result.requires_immediate_attention

\* two FAST categories and five other matches: exactly 70
C11_Witness ==
    /\ fast_result # NotCalled
    /\ fast_result.urgency_score = 70
    /\ fast_result.requires_immediate_attention
    /\ fast_result.requires_emergency_transport
    /\ fast_result.triage_level = "IMMEDIATE"

-----------------------------------------------------------------------------
(* Properties of the symptom analysis.                                     *)

\* a symptom analysis was returned by one of the two analyze_stroke_symptoms
Analyzed ==
    call \in {"symptom_agent.analyze_stroke_symptoms", "agent.analyze_stroke_symptoms"}

\* 3 for each FAST category of the returned analysis with a match
FastPart ==
    (IF Len(ret.detected_symptoms.face) > 0 THEN 3 ELSE 0)
    + (IF Len(ret.detected_symptoms.arm) > 0 THEN 3 ELSE 0)
    + (IF Len(ret.detected_symptoms.speech) > 0 THEN 3 ELSE 0)

\* the matched "other" indicators of the returned analysis
OtherMatched == Len(ret.detected_symptoms.other)

\* C12 as stated: the composite score is 3 for each FAST category with a
\* match plus min(10, 2 x the number of matched other indicators).
C12_ScoreWithDoubledOther ==
    Analyzed =>
        ret.fast_score =
            FastPart + (IF 2 * OtherMatched < 10 THEN 2 * OtherMatched ELSE 10)

\* C12: the composite score is 3 for each of face, arm and speech with at
\* least one matched indicator, however many matched, plus the number of
\* matched other indicators (not doubled, not capped).
C12_ScoreWithOtherCount ==
    Analyzed => ret.fast_score = FastPart + OtherMatched

\* two face indicators and two other indicators matched: 3 + 2
C12_Witness ==
    /\ Analyzed
    /\ Len(ret.detected_symptoms.face) = 2
    /\ ret.detected_symptoms.arm = <<>>
    /\ ret.detected_symptoms.speech = <<>>
    /\ OtherMatched = 2
    /\ ret.fast_score = 5

\* C13: severity is a function of the composite score (critical iff score
\* >= 6, warning iff 3 <= score < 6, normal otherwise; in particular at 0, 2,
\* 3, 5 and 6) and requires_triage holds iff score >= 3, that is iff the
\* severity is not normal.
C13_SeverityOfScore ==
    Analyzed =>
        /\ (ret.severity = "critical") <=> (ret.fast_score >= 6)
        /\ (ret.severity = "warning") <=> (ret.fast_score >= 3 /\ ret.fast_score < 6)
        /\ (ret.severity = "normal") <=> (ret.fast_score < 3)
        /\ ret.requires_triage <=> (ret.fast_score >= 3)
        /\ ret.requires_triage <=> (ret.severity # "normal")
        /\ ret.fast_score \in {0, 2} => ret.severity = "normal"
        /\ ret.fast_score \in {3, 5} => ret.severity = "warning"
        /\ ret.fast_score = 6 => ret.severity = "critical"

\* the score 6 reached by other indicators alone
C13_Witness ==
    /\ Analyzed
    /\ ret.fast_score = 6
    /\ FastPart = 0
    /\ ret.severity = "critical"
    /\ ret.requires_triage

-----------------------------------------------------------------------------
(* Properties of the alert and care functions.                             *)

\* an alert was returned by one of the two send_emergency_alert
Alerted == call \in {"alert_agent.send_emergency_alert", "agent.send_emergency_alert"}

\* the recipients of the returned alert
Recipients ==
    IF call = "alert_agent.send_emergency_alert"
    THEN ret.dispatch_info.recipients
    ELSE ret.recipients

RecipientTypes == {Recipients[i].type : i \in 1..Len(Recipients)}

\* the urgency score of the triage result the alert was sent for
AlertScore == Get(args.triage_data, "urgency_score", 0)

\* the number of recipients the table gives each band
TableSize(score) ==
    IF score >= 70 THEN 4 ELSE IF score >= 40 THEN 3 ELSE IF score >= 20 THEN 2 ELSE 0

\* C14: every send_emergency_alert of the repository selects the recipients
\* from the table of the urgency bands: 4 for IMMEDIATE, 911 and hospital
\* among them, 3 for URGENT, 2 for SEMI-URGENT, none for NON-URGENT, and
\* total_recipients is the length of that list.
C14_RecipientTable ==
    Alerted =>
        /\ Len(Recipients) = TableSize(AlertScore)
        /\ AlertScore >= 70 => {"911", "hospital"} \subseteq RecipientTypes
        /\ "total_recipients" \in DOMAIN ret
        /\ ret.total_recipients = Len(Recipients)

\* the part of C14 that the alert agent's own function satisfies
AlertAgentTable ==
    call = "alert_agent.send_emergency_alert" =>
        /\ Len(Recipients) = TableSize(AlertScore)
        /\ AlertScore >= 70 => {"911", "hospital"} \subseteq RecipientTypes
        /\ ret.total_recipients = Len(Recipients)

\* a care set was returned by one of the two provide_immediate_care_instructions
CaredFor ==
    call \in {"care_agent.provide_immediate_care_instructions",
              "agent.provide_immediate_care_instructions"}

\* the sections of the returned care set
Sections == DOMAIN ret.care_instructions

\* a flag of the assessment the care set was made for
Flag(name) ==
    Get(Get(args.stroke_assessment, "fast_assessment", EmptyDict), name, FALSE)

\* the sections the flags and the score of the assessment call for
SectionsDue ==
    {"immediate_actions", "positioning", "monitoring", "do_not_do"}
    \cup (IF Flag("face") THEN {"face_care"} ELSE {})
    \cup (IF Flag("arms") THEN {"arm_care"} ELSE {})
    \cup (IF Flag("speech") THEN {"communication"} ELSE {})
    \cup (IF Get(args.stroke_assessment, "urgency_score", 0) >= 70
          THEN {"critical_care"} ELSE {})

\* C15: for all combinations of the face, arms and speech flags and of
\* urgency_score >= 70, provide_immediate_care_instructions returns the four
\* base sections, face_care iff the face flag is true, arm_care iff the arms
\* flag is true, communication iff the speech flag is true, critical_care iff
\* urgency_score >= 70, and no other section.
C15_CareSections ==
    CaredFor => Sections = SectionsDue

\* the part of C15 that the care agent's own function satisfies
CareAgentSections ==
    call = "care_agent.provide_immediate_care_instructions" => Sections = SectionsDue

\* log_stroke_event has returned
Logged == call = "followup_agent.log_stroke_event"

\* the two timestamps of the event that was logged
Onset == Get(args.event_data, "symptom_onset_time", None)
Arrival == Get(args.event_data, "hospital_arrival_time", None)

\* both timestamps are present and parsable
BothParsable == Parsable(Onset) /\ Parsable(Arrival)

\* the outcomes of the log entry
Outcomes == ret.log_entry.outcomes

\* C16: log_stroke_event returns status "success"; when both timestamps are
\* present and parsable, door_to_needle_eligible = (arrival - onset in
\* minutes <= 270); when either is absent or unparsable, door_to_needle_eligible
\* is present with value null.
C16_TreatmentWindowFlag ==
    Logged =>
        /\ ret.status = "success"
        /\ "door_to_needle_eligible" \in DOMAIN Outcomes
        /\ Outcomes.door_to_needle_eligible =
              IF BothParsable
              THEN PyBool(IsoMinutes[Arrival.v] - IsoMinutes[Onset.v] <= 270)
              ELSE None

\* what log_stroke_event does with the flag: computed when both timestamps
\* parse, null when both are non-empty and one does not parse, and no entry
\* at all when one of them is absent, None or empty
FlagAsLogged ==
    Logged =>
        /\ ret.status = "success"
        /\ BothParsable =>
              Get(Outcomes, "door_to_needle_eligible", NotCalled) =
                  PyBool(IsoMinutes[Arrival.v] - IsoMinutes[Onset.v] <= 270)
        /\ (~BothParsable /\ Truthy(Onset) /\ Truthy(Arrival)) =>
              Get(Outcomes, "door_to_needle_eligible", NotCalled) = None
        /\ ~(Truthy(Onset) /\ Truthy(Arrival)) =>
              "door_to_needle_eligible" \notin DOMAIN Outcomes

\* the workflow has returned a completed record
Completed == pc = "returned" /\ Status = "completed"

\* the sum of the duration_seconds of the stages on the timeline
StageSum ==
    SumDurations(workflow_results.timeline, DOMAIN workflow_results.timeline)

\* C17: for every completed workflow, total_duration_seconds equals the sum
\* of the duration_seconds of the stages of its timeline, however the clock
\* advances between and inside the stages.
C17_TotalIsSumOfStages ==
    Completed => workflow_results.total_duration_seconds = StageSum

\* C17, amended: for every completed workflow, total_duration_seconds is
\* end_time - start_time, read from the clock on its own; it is at least the
\* sum of the stage durations, which is the value that
\* calculate_response_time_metrics reports as total_workflow_duration.
C17_TotalIsEndMinusStart ==
    Completed =>
        /\ workflow_results.total_duration_seconds =
               workflow_results.end_time - workflow_results.start_time
        /\ StageSum <= workflow_results.total_duration_seconds
        /\ calculate_response_time_metrics(workflow_results.timeline)
               .total_workflow_duration = StageSum

\* a completed workflow whose clock advanced inside a stage and also outside
\* the stages: the stage durations sum to less than the total
C17_Witness ==
    /\ Completed
    /\ StageSum > 0
    /\ StageSum < workflow_results.total_duration_seconds

\* the workflow ran to completion on the text "my face is drooping and I can't
\* speak"
ScenarioRan ==
    /\ input_data = [text |-> PyStr("my face is drooping and I can't speak")]
    /\ Completed

\* the sections of the care set the workflow recorded
CareSections == DOMAIN Results.care_instructions.care_instructions

\* C18: end to end, the text "my face is drooping and I can't speak" matches
\* the face and the speech category, giving score 6, severity critical,
\* requires_triage, urgency_score 60, band URGENT, no immediate attention,
\* emergency transport, an alert with 3 recipients and a care set with
\* face_care and communication but without critical_care.
C18_FaceAndSpeechScenario ==
    ScenarioRan =>
        /\ Results.symptom_analysis.detected_symptoms.face # <<>>
        /\ Results.symptom_analysis.detected_symptoms.speech # <<>>
        /\ Results.symptom_analysis.fast_score = 6
        /\ Results.symptom_analysis.severity = "critical"
        /\ Results.symptom_analysis.requires_triage
        /\ Results.triage_assessment.urgency_score = 60
        /\ Results.triage_assessment.triage_level = "URGENT"
        /\ ~Results.triage_assessment.requires_immediate_attention
        /\ Results.triage_assessment.requires_emergency_transport
        /\ Recorded("emergency_alert")
        /\ Results.emergency_alert.total_recipients = 3
        /\ {"face_care", "communication"} \subseteq CareSections
        /\ "critical_care" \notin CareSections

\* what the workflow records for that text: only "can't speak" is a substring
\* of it, so only the speech category matches
ScenarioAsRun ==
    ScenarioRan =>
        /\ Results.symptom_analysis.detected_symptoms =
               [face |-> <<>>, arm |-> <<>>, speech |-> <<"can't speak">>,
                other |-> <<>>]
        /\ Results.symptom_analysis.fast_score = 3
        /\ Results.symptom_analysis.severity = "warning"
        /\ Results.symptom_analysis.requires_triage
        /\ Results.triage_assessment.urgency_score = 30
        /\ Results.triage_assessment.triage_level = "SEMI-URGENT"
        /\ ~Results.triage_assessment.requires_immediate_attention
        /\ ~Results.triage_assessment.requires_emergency_transport
        /\ ~Recorded("emergency_alert")
        /\ CareSections = {"immediate_actions", "positioning", "monitoring",
                           "do_not_do", "communication"}

\* calculate_stroke_risk_score has returned
Scored == call = "triage_agent.calculate_stroke_risk_score"

\* the fast_score and the severity points of the patient_data that was scored
ScoredFastScore ==
    Get(Get(args.patient_data, "symptom_analysis", EmptyDict), "fast_score", 0)
SeverityPoints ==
    LET severity == Get(args.patient_data, "severity", "normal")
    IN  CASE severity = "critical" -> 40
          [] severity = "warning"  -> 20
          [] OTHER                 -> 0

\* C19: calculate_stroke_risk_score returns total_risk_score =
\* min(40, 5 * fast_score) + (40 if critical, 20 if warning, 0 otherwise) + 15
\* and exactly one of five categories by the cut points 80, 60, 40, 20; an
\* urgency_score in the input changes nothing.
C19_RiskScoreAndCategory ==
    Scored =>
        LET total == ret.total_risk_score
            category == ret.risk_category
        IN  /\ total = Min(40, 5 * ScoredFastScore) + SeverityPoints + 15
            /\ category \in {"VERY HIGH", "HIGH", "MODERATE", "LOW-MODERATE", "LOW"}
            /\ category = "VERY HIGH" <=> total >= 80
            /\ category = "HIGH" <=> (60 <= total /\ total < 80)
            /\ category = "MODERATE" <=> (40 <= total /\ total < 60)
            /\ category = "LOW-MODERATE" <=> (20 <= total /\ total < 40)
            /\ category = "LOW" <=> total < 20

\* a patient_data with fast_score 5, severity critical and urgency_score 0
\* was scored 80, VERY HIGH
C19_Witness ==
    /\ Scored
    /\ ScoredFastScore = 5
    /\ Get(args.patient_data, "urgency_score", 100) = 0
    /\ ret.total_risk_score = 80
    /\ ret.risk_category = "VERY HIGH"

\* one of the two orchestrators has returned a record (and raised nothing)
CoordinatorReturned == call = "coordinator.orchestrate_stroke_detection"
AgentReturned ==
    call = "agent.orchestrate_stroke_detection" /\ "raised" \notin DOMAIN ret

\* C20: every record returned by the coordinator's orchestrate_stroke_detection
\* and by the one of agent.py, on every path, contains workflow_id,
\* patient_id, status and timestamp.
C20_RecordHasFourKeys ==
    (CoordinatorReturned \/ AgentReturned) =>
        {"workflow_id", "patient_id", "status", "timestamp"} \subseteq DOMAIN ret

\* the keys the two orchestrators do return: the coordinator's record has
\* start_time and no timestamp and passes validate_workflow_data; the record
\* of agent.py has timestamp, no status and no start_time, and does not
RecordKeysAsReturned ==
    /\ CoordinatorReturned =>
          /\ {"workflow_id", "patient_id", "status", "start_time"} \subseteq DOMAIN ret
          /\ "timestamp" \notin DOMAIN ret
          /\ validate_workflow_data(ret)
    /\ AgentReturned =>
          /\ {"workflow_id", "patient_id", "timestamp"} \subseteq DOMAIN ret
          /\ "status" \notin DOMAIN ret
          /\ ~validate_workflow_data(ret)

\* the orchestrator of agent.py raised instead of returning a record
AgentRaised ==
    call = "agent.orchestrate_stroke_detection" /\ "raised" \in DOMAIN ret

\* /api/emergency has answered
Posted == call = "app.call_emergency"

\* the body is a JSON object
IsObject == args.body.kind = "object"

\* the field is in the body and is not empty (null, "", 0 and false are)
NonEmpty(field) ==
    /\ field \in DOMAIN args.body.fields
    /\ args.body.fields[field] \notin {None, PyStr(""), PyInt(0), PyBool(FALSE)}

\* C21: POST /api/emergency dispatches an emergency call, answering with a
\* record holding an emergency_id and the given patient_id and condition,
\* exactly when the body carries a non-empty patient_id and a non-empty
\* condition; when either is missing it answers 400 with status "error"
\* without calling call_emergency_services; a body that is no JSON object
\* gets a 500 error record.
C21_EmergencyEndpoint ==
    Posted =>
        /\ ret.code \in {200, 400, 500}
        /\ (IsObject /\ NonEmpty("patient_id") /\ NonEmpty("condition")) =>
              /\ ret.code = 200
              /\ "emergency_id" \in DOMAIN ret.json
              /\ ret.json.patient_id = args.body.fields.patient_id
              /\ ret.json.condition = args.body.fields.condition
              /\ ret.emergency_calls =
                     <<[patient_id |-> args.body.fields.patient_id,
                        condition  |-> args.body.fields.condition]>>
        /\ (IsObject /\ ~(NonEmpty("patient_id") /\ NonEmpty("condition"))) =>
              /\ ret.code = 400
              /\ ret.json.status = "error"
              /\ ret.emergency_calls = <<>>
        /\ ~IsObject =>
              /\ ret.code = 500
              /\ ret.json.status = "error"
              /\ ret.emergency_calls = <<>>

\* a body with a patient_id and a condition was answered with a dispatch
C21_Witness ==
    /\ Posted
    /\ ret.code = 200
    /\ ret.json.patient_id = PyStr("patient-001")
    /\ ret.json.condition = PyStr("chest pain")
    /\ Len(ret.emergency_calls) = 1

\* one of the three monitor functions has returned a reading
Monitoring ==
    call \in {"agent.monitor_heart_rate", "agent.monitor_blood_pressure",
              "agent.monitor_temperature"}

\* the documented thresholds of the reading that was taken
DocumentedCritical ==
    CASE call = "agent.monitor_heart_rate" ->
            args.heart_rate < 50 \/ args.heart_rate > 150
      [] call = "agent.monitor_blood_pressure" ->
            args.systolic > 180 \/ args.diastolic > 110 \/ args.systolic < 90
      [] call = "agent.monitor_temperature" ->
            args.temperature_f < 950 \/ args.temperature_f > 1040
DocumentedWarning ==
    CASE call = "agent.monitor_heart_rate" ->
            args.heart_rate < 60 \/ args.heart_rate > 120
      [] call = "agent.monitor_blood_pressure" ->
            args.systolic > 140 \/ args.diastolic > 90
      [] call = "agent.monitor_temperature" ->
            args.temperature_f < 960 \/ args.temperature_f > 1004

\* C22: every reading of monitor_heart_rate, monitor_blood_pressure and
\* monitor_temperature has exactly one severity of critical, warning and
\* normal, by the documented thresholds; an emergency_response is attached
\* iff the severity is critical, and an alert iff it is not normal.
C22_VitalSeverity ==
    Monitoring =>
        /\ ret.severity =
               IF DocumentedCritical THEN "critical"
               ELSE IF DocumentedWarning THEN "warning"
               ELSE "normal"
        /\ "emergency_response" \in DOMAIN ret <=> ret.severity = "critical"
        /\ "alert" \in DOMAIN ret <=> ret.severity # "normal"

\* a heart rate of 151 was read as critical and emergency services were called
C22_Witness ==
    /\ call = "agent.monitor_heart_rate"
    /\ args.heart_rate = 151
    /\ ret.severity = "critical"
    /\ ret.emergency_response.patient_id = "patient-001"

\* a full status was computed, by get_patient_status or for /alerts
StatusTaken == call \in {"agent.get_patient_status", "app.get_patient_alerts"}

\* the three readings the status was computed from
HeartReading == monitor_heart_rate("patient-001", args.heart_rate, 0)
PressureReading ==
    monitor_blood_pressure("patient-001", args.systolic, args.diastolic, 0)
TemperatureReading == monitor_temperature("patient-001", args.temperature_f, 0)
TheReadings == {HeartReading, PressureReading, TemperatureReading}

\* the worst severity among the readings
WorstSeverity ==
    IF \E r \in TheReadings : r.severity = "critical" THEN "critical"
    ELSE IF \E r \in TheReadings : r.severity = "warning" THEN "warning"
    ELSE "normal"

\* the three readings in every order
ReadingOrders ==
    {order \in [1..3 -> TheReadings] :
        /\ Cardinality({i \in 1..3 : order[i] = HeartReading}) = 1
        /\ Cardinality({i \in 1..3 : order[i] = PressureReading}) = 1
        /\ Cardinality({i \in 1..3 : order[i] = TemperatureReading}) = 1}

\* C25: get_patient_status reports as overall_severity the worst severity of
\* its three readings, whatever the order of the readings; alerts has one
\* entry per reading that is not normal and emergency_responses one entry per
\* critical reading.
C25_OverallSeverity ==
    StatusTaken =>
        /\ ret.overall_severity = WorstSeverity
        /\ \A order \in ReadingOrders : OverallSeverity(order) = WorstSeverity
        /\ Len(ret.alerts) =
               Cardinality({r \in TheReadings : r.severity # "normal"})
        /\ \A r \in TheReadings :
               r.severity # "normal" =>
                   \E i \in 1..Len(ret.alerts) : ret.alerts[i] = r.alert
        /\ Len(ret.emergency_responses) =
               Cardinality({r \in TheReadings : r.severity = "critical"})
        /\ \A r \in TheReadings :
               r.severity = "critical" =>
                   \E i \in 1..Len(ret.emergency_responses) :
                       ret.emergency_responses[i] = r.emergency_response

\* a status with a critical heart rate, a blood pressure in the warning range
\* and a normal temperature: critical overall, two alerts, one emergency call
C25_Witness ==
    /\ call = "agent.get_patient_status"
    /\ ret.heart_rate.severity = "critical"
    /\ ret.blood_pressure.severity = "warning"
    /\ ret.temperature.severity = "normal"
    /\ ret.overall_severity = "critical"
    /\ Len(ret.alerts) = 2
    /\ Len(ret.emergency_responses) = 1

\* the agents in their fixed order, and the timeline entry of each
StageOrder ==
    <<"symptom_agent", "triage_agent", "alert_agent", "care_agent", "followup_agent">>
StageKeys ==
    <<"symptom_analysis", "triage_assessment", "emergency_alert",
      "care_instructions", "event_logging">>

\* the place of an executed agent in the fixed order (0 if it has none)
Place(agent) ==
    IF \E k \in 1..5 : StageOrder[k] = agent
    THEN CHOOSE k \in 1..5 : StageOrder[k] = agent
    ELSE 0

AgentsExecuted == workflow_results.agents_executed
Timeline == workflow_results.timeline

\* C23: in every run of the coordinator the stages run one after the other in
\* the fixed order symptom, triage, alert, care, event logging:
\* agents_executed is a subsequence of that order without repetition, and the
\* timeline holds one entry (start, end, duration_seconds) for each executed
\* stage, none for a skipped one, each stage starting after the one before it
\* ended.
C23_StagesInFixedOrder ==
    /\ \A i \in 1..Len(AgentsExecuted) : Place(AgentsExecuted[i]) # 0
    /\ \A i, j \in 1..Len(AgentsExecuted) :
           i < j => Place(AgentsExecuted[i]) < Place(AgentsExecuted[j])
    /\ DOMAIN Timeline =
           {StageKeys[Place(AgentsExecuted[i])] : i \in 1..Len(AgentsExecuted)}
    /\ \A stage \in DOMAIN Timeline :
           DOMAIN Timeline[stage] = {"start", "end", "duration_seconds"}
    /\ \A i, j \in 1..Len(AgentsExecuted) :
           i < j => Timeline[StageKeys[Place(AgentsExecuted[i])]].end
                        <= Timeline[StageKeys[Place(AgentsExecuted[j])]].start

\* a completed workflow that ran all five stages
C23_Witness ==
    /\ Completed
    /\ AgentsExecuted = StageOrder
    /\ DOMAIN Timeline = {StageKeys[k] : k \in 1..5}

\* the summary of the returned record, and whether it lists an action
Summary == workflow_results.summary
ActionTaken(text) ==
    \E i \in 1..Len(Summary.actions_taken) : Summary.actions_taken[i] = text

\* C24: in every completed workflow the summary is derived from the record:
\* total_agents is the number of stages executed (2, 4 or 5), status is
\* "completed", urgency_score and triage_level are present iff triage ran,
\* and actions_taken lists "Emergency services alerted" iff the alert stage
\* ran, "Care instructions provided" iff the care stage ran, and always
\* "Event logged for follow-up".
C24_SummaryFromRecord ==
    Completed =>
        /\ Summary.total_agents = Len(AgentsExecuted)
        /\ Summary.total_agents \in {2, 4, 5}
        /\ Summary.status = "completed"
        /\ "urgency_score" \in DOMAIN Summary <=> Executed("triage_agent")
        /\ "triage_level" \in DOMAIN Summary <=> Executed("triage_agent")
        /\ Executed("triage_agent") =>
              /\ Summary.urgency_score = Results.triage_assessment.urgency_score
              /\ Summary.triage_level = Results.triage_assessment.triage_level
        /\ ActionTaken("Emergency services alerted") <=> Executed("alert_agent")
        /\ ActionTaken("Care instructions provided") <=> Executed("care_agent")
        /\ ActionTaken("Event logged for follow-up")

\* a completed workflow of four stages: triage without alert
C24_Witness ==
    /\ Completed
    /\ Summary.total_agents = 4
    /\ Summary.triage_level = "SEMI-URGENT"
    /\ ~ActionTaken("Emergency services alerted")
    /\ ActionTaken("Care instructions provided")

\* the log entry the logging stage stored
LogEntry == Results.event_log.log_entry

\* C26: the event log entry of the logging stage reflects the prior stage
\* outputs of its workflow: its triage_assessment is the triage result
\* whenever triage ran, its emergency_response is the alert result whenever
\* the alert ran, and outcomes.fast_score is the fast_score of the symptom
\* analysis.
C26_LogReflectsStages ==
    Recorded("event_log") =>
        /\ Recorded("triage_assessment") =>
              LogEntry.triage_assessment = Results.triage_assessment
        /\ Recorded("emergency_alert") =>
              LogEntry.emergency_response = Results.emergency_alert
        /\ LogEntry.outcomes.fast_score = Get(Results.symptom_analysis, "fast_score", 0)

\* what the log entry holds: log_stroke_event looks triage, alert and score up
\* under keys the results never have, so the three are always the defaults;
\* the symptom analysis and the care instructions are found
LogEntryAsWritten ==
    Recorded("event_log") =>
        /\ LogEntry.triage_assessment = EmptyDict
        /\ LogEntry.emergency_response = EmptyDict
        /\ LogEntry.outcomes.fast_score = 0
        /\ LogEntry.outcomes.urgency_level = None
        /\ LogEntry.initial_symptoms = Results.symptom_analysis
        /\ LogEntry.care_provided = Get(Results, "care_instructions", EmptyDict)

\* the coordinator was called with a voice payload whose transcript has no
\* punctuation, and no agent raised
VoiceCall ==
    /\ call = "coordinator.orchestrate_stroke_detection"
    /\ args.fault = 0
    /\ args.input_data # None
    /\ IsVoice(args.input_data)
    /\ DOMAIN args.input_data = {"voice_text", "input_type"}
    /\ args.input_data.voice_text.t = "str"
    /\ StripPunctuation(args.input_data.voice_text.v) = args.input_data.voice_text.v

\* the record of the same call with the same words given as text
SameAsText ==
    orchestrate_stroke_detection(args.patient_id,
                                 [text |-> args.input_data.voice_text,
                                  input_type |-> "text"], 0, 0, 1)

\* the urgency_score a record holds, None without a triage
UrgencyOf(record) ==
    IF "triage_assessment" \in DOMAIN record.results
    THEN PyInt(record.results.triage_assessment.urgency_score)
    ELSE None

\* C27: the stages the coordinator executes do not depend on input_type: for
\* a text without punctuation, a voice payload yields the same requires_triage
\* decision, the same executed stages and the same urgency_score as the same
\* text with input_type "text".
C27_VoiceSameAsText ==
    VoiceCall =>
        /\ TriageCondition(ret.results.symptom_analysis)
               = TriageCondition(SameAsText.results.symptom_analysis)
        /\ ret.agents_executed = SameAsText.agents_executed
        /\ UrgencyOf(ret) = UrgencyOf(SameAsText)

\* what a voice payload gets: process_voice_input wraps the analysis, the
\* coordinator finds no requires_triage in the wrapper, and only the symptom
\* and the logging stage run, although the wrapped analysis is the one the
\* text gets
VoiceNeverTriaged ==
    VoiceCall =>
        /\ ret.agents_executed = <<"symptom_agent", "followup_agent">>
        /\ UrgencyOf(ret) = None
        /\ ret.results.symptom_analysis.symptom_analysis.fast_score
               = SameAsText.results.symptom_analysis.fast_score

\* the number of FAST categories the symptom analysis matched
FastCategories ==
    Cardinality({c \in {"face", "arm", "speech"} :
                    TheSymptomAnalysis.detected_symptoms[c] # <<>>})

\* C28: whenever the symptom analysis of a workflow has severity critical
\* (fast_score >= 6, recommendation IMMEDIATE EMERGENCY RESPONSE REQUIRED),
\* the completed workflow includes the emergency-alert stage.
C28_CriticalIsAlerted ==
    (Completed /\ TheSymptomAnalysis.fast_score >= 6) =>
        /\ TheSymptomAnalysis.severity = "critical"
        /\ Recorded("emergency_alert")

\* when a critical analysis is alerted: a text payload with at least two FAST
\* categories; the other symptoms add at most 10 to the urgency, so they
\* never reach the alert condition on their own or with one category
CriticalAlertedAsRun ==
    (Completed /\ TheSymptomAnalysis.fast_score >= 6) =>
        /\ TheSymptomAnalysis.severity = "critical"
        /\ Recorded("emergency_alert") <=>
              (~IsVoice(input_data) /\ FastCategories >= 2)

\* the orchestrator of agent.py returned a record for a text that is not
\* blank, without the webcam
AgentTextCall ==
    /\ AgentReturned
    /\ ~args.include_webcam
    /\ ~IsBlank(args.input_text.v)

\* the record of the coordinator for the same text and patient
SameByCoordinator ==
    orchestrate_stroke_detection(ret.patient_id, [text |-> args.input_text], 0, 0, 1)

\* a stage result is in both records or in neither
SamePresence(key) ==
    key \in DOMAIN ret <=> key \in DOMAIN SameByCoordinator.results

\* C29: for every non-empty input text, the orchestrator of agent.py (without
\* webcam) and the coordinator (text input) record the same presence or
\* absence of symptom_analysis, triage_assessment, emergency_alert and
\* care_instructions, with equal fast_score and urgency_score.
C29_OrchestratorsAgree ==
    AgentTextCall =>
        /\ SamePresence("symptom_analysis")
        /\ SamePresence("triage_assessment")
        /\ SamePresence("emergency_alert")
        /\ SamePresence("care_instructions")
        /\ ret.symptom_analysis.fast_score
               = SameByCoordinator.results.symptom_analysis.fast_score
        /\ "triage_assessment" \in DOMAIN ret =>
               ret.triage_assessment.urgency_score
                   = SameByCoordinator.results.triage_assessment.urgency_score

\* where the two agree and where they part: analysis, triage, care and the
\* two scores agree; agent.py alerts only a patient who requires immediate
\* attention (urgency_score >= 70), the coordinator also one with
\* urgency_score >= 40
OrchestratorsAsRun ==
    AgentTextCall =>
        /\ SamePresence("symptom_analysis")
        /\ SamePresence("triage_assessment")
        /\ SamePresence("care_instructions")
        /\ ret.symptom_analysis.fast_score
               = SameByCoordinator.results.symptom_analysis.fast_score
        /\ "triage_assessment" \in DOMAIN ret =>
              /\ ret.triage_assessment.urgency_score
                     = SameByCoordinator.results.triage_assessment.urgency_score
              /\ "emergency_alert" \in DOMAIN ret
                     <=> ret.triage_assessment.urgency_score >= 70
              /\ "emergency_alert" \in DOMAIN SameByCoordinator.results
                     <=> ret.triage_assessment.urgency_score >= 40

\* the urgency scores a triaged patient of the workflow can have
WorkflowUrgencies ==
    {u \in 0..100 :
        /\ u % 2 = 0
        /\ u \in {6, 8, 10} \cup 30..40 \cup 60..70 \cup 90..100}

\* the record the coordinator returned holds the stage result
Holds(key) == key \in DOMAIN ret.results

\* C30: in every run of the coordinator the urgency_score of a triaged
\* patient is an even number in {6, 8, 10}, 30..40, 60..70 or 90..100; so
\* whenever the alert stage ran the dispatch has 3 or 4 recipients and the
\* response coordination 2 or 3 units: the SEMI-URGENT tier of
\* send_emergency_alert and the non-emergency transport of
\* coordinate_emergency_response are never reached from the workflow.
C30_WorkflowUrgencies ==
    CoordinatorReturned =>
        /\ Holds("triage_assessment") =>
              ret.results.triage_assessment.urgency_score \in WorkflowUrgencies
        /\ Holds("emergency_alert") =>
              /\ ret.results.triage_assessment.urgency_score >= 40
              /\ ret.results.emergency_alert.total_recipients \in {3, 4}
              /\ Len(ret.results.emergency_alert.dispatch_info.recipients) \in {3, 4}
              /\ Len(ret.results.response_coordination.response_units) \in {2, 3}
              /\ \A i \in 1..Len(ret.results.response_coordination.response_units) :
                     ret.results.response_coordination.response_units[i].unit
                         # "Non-Emergency Transport"

\* one FAST category and five other symptoms: urgency 40, the lowest score
\* that is alerted, with 3 recipients and 2 units
C30_Witness ==
    /\ CoordinatorReturned
    /\ Holds("emergency_alert")
    /\ ret.results.triage_assessment.urgency_score = 40
    /\ ret.results.emergency_alert.total_recipients = 3
    /\ Len(ret.results.response_coordination.response_units) = 2

=============================================================================
